---- MODULE Spec2Model ----
(***************************************************************************)
(* A state-machine model of the process, scheduler, semaphore, sleep-queue *)
(* and queue-pool code of the kernel (kernel.c, process.c, semaphore.c,    *)
(* clock.c, queue.c).  Every primitive runs with interrupts masked, so a   *)
(* primitive, from its entry to the next point where the calling process   *)
(* is switched out or returns, is one atomic action.                       *)
(*                                                                         *)
(* Several names are defined twice in the sources.  The model takes wait   *)
(* from semaphore.c, and sleep, wakeup and clkhandler from clock.c, which  *)
(* work on the sleep queue of queue.c; the wait, sleep and clkhandler of   *)
(* process.c and kernel.c are not modelled.  clock.c calls the state field *)
(* of a process prstate; it is the pstate of kernel.c and process.c.       *)
(***************************************************************************)
EXTENDS Integers, Sequences, FiniteSets, TLC

(***************************************************************************)
(* Configuration.  NPROC, NSEM, the priority range and the PR_ state codes *)
(* are set in include/kernel.h and include/process.h.  The process and    *)
(* semaphore tables are scaled down; the state codes are those of the      *)
(* diagnostics table (kernel.c:724).                                       *)
(***************************************************************************)
NPROC == 3
NSEM == 2
PRIORITY_MIN == 0
PRIORITY_MAX == 2
PRIORITY_DEFAULT == 1

PR_FREE == 0
PR_CURR == 1
PR_READY == 2
PR_RECV == 3
PR_SLEEP == 4
PR_SUSP == 5
PR_WAIT == 6

OK == 0
SYSERR == -1
EMPTY == -1
NONE == SYSERR - 1

QUANTUM == 10
NQENT == NPROC + NSEM + 4
QE_FREE == 0
QE_HEAD == 1
QE_TAIL == 2
QE_PROC == 3
MAXINT == 99
MININT == -99
(* 0 - 1 in an unsigned 32-bit counter is 4294967295; the largest integer  *)
(* TLC represents stands for it.                                           *)
UINT32_WRAP == 2147483647
(* memory.c in units of MEM_ALIGNMENT bytes: the header of a block is one  *)
(* unit (sizeof(memblk_t)), and the stack pool and the smallest stack that *)
(* create hands out (256 bytes) are scaled down.                           *)
MEMBLK == 1
MIN_BLOCK_SIZE == MEMBLK + 1
STACK_SIZE == 8
MINSTK == 1
(* The depth of the stack of saved interrupt states, scaled down. *)
INT_STACK_SIZE == 2

(* Bounds of the exploration. *)
MaxSteps == 7
MaxTicks == 3
MaxDelay == 2
MaxCount == 1
MaxWaiters == 2
MaxSignals == 2
MaxLiveSteps == 4
MaxMsg == 2
MaxErrSteps == 4
MaxQueueSteps == 4
MaxSchedSteps == 5
MaxNest == 3
MaxStack == 3

Pids == 0 .. (NPROC - 1)
Sems == 0 .. (NSEM - 1)
Prios == PRIORITY_MIN .. PRIORITY_MAX

VARIABLES
  proctab,         \* kernel.c:23   process table
  currpid,         \* kernel.c:26
  semtab,          \* kernel.c:29   count and allocation mark of each semaphore
  sem_queues,      \* semaphore.c:35 head and tail of each wait queue
  semfree,         \* semaphore.c:29
  readylist_head,  \* kernel.c:47
  readylist_tail,  \* kernel.c:48
  pid_in_use,      \* process.c:32
  next_pid_hint,   \* process.c:33
  queuetab,        \* queue.c:46
  qfree,           \* queue.c:49
  sleepq,          \* clock.c:72
  slnempty,        \* clock.c:73
  clkticks,        \* clock.c:61
  clkdefer,        \* clock.c:64
  preempt_count,   \* clock.c:67
  time_quantum,    \* clock.c:69
  stkpool,         \* memory.c:36  free list (by address) and free bytes of the stack pool
  pcall,           \* the primitive each switched-out process is suspended in
  hung,            \* the kernel spins in a list walk or has read outside a table
  woke,            \* history: the call that returned in the last step
  waitq,           \* history: per semaphore, the blocked callers in call order
  semdel,          \* history: the semaphore was deleted while the process waited
  semrst,          \* history: the semaphore was reset while the process waited
  readied,         \* history: the processes a wake-up made READY, not CURRENT since
  wakeat,          \* history: clkticks + n recorded by sleep(n)
  semexp,          \* history: initial count + signals - waits of each semaphore
  clkcalls,        \* history: the number of clock handler invocations since boot
  steps,           \* number of primitives and interrupts since boot
  interrupt_state, \* interrupts.c:38  1 when interrupts are masked
  int_state_stack, \* interrupts.c:45
  int_stack_ptr,   \* interrupts.c:46
  masks,           \* the mask variables of the critical sections now open
  outer            \* history: interrupt_state before the outermost disable

kvars == <<proctab, currpid, semtab, sem_queues, semfree, readylist_head,
           readylist_tail, pid_in_use, next_pid_hint, queuetab, qfree, sleepq,
           slnempty, clkticks, clkdefer, preempt_count, time_quantum, stkpool,
           pcall, hung, woke, waitq, semdel, semrst, readied, wakeat, semexp,
           clkcalls, steps>>

vars == <<kvars, interrupt_state, int_state_stack, int_stack_ptr, masks, outer>>

NoWoke == [pid |-> NONE, op |-> "none", sem |-> NONE, ret |-> NONE]
NoCall == [op |-> "none", arg |-> NONE]

(* The kernel state as one record, so that the C functions compose.  ret   *)
(* carries a function's return value and aux a local result (a pid or a    *)
(* queue entry) to its caller.                                             *)
K ==
  [proctab |-> proctab, currpid |-> currpid, semtab |-> semtab,
   sem_queues |-> sem_queues, semfree |-> semfree,
   readylist_head |-> readylist_head, readylist_tail |-> readylist_tail,
   pid_in_use |-> pid_in_use, next_pid_hint |-> next_pid_hint,
   queuetab |-> queuetab, qfree |-> qfree, sleepq |-> sleepq,
   slnempty |-> slnempty, clkticks |-> clkticks, clkdefer |-> clkdefer,
   preempt_count |-> preempt_count, time_quantum |-> time_quantum,
   stkpool |-> stkpool,
   pcall |-> pcall, hung |-> hung, woke |-> NoWoke, ret |-> OK, aux |-> NONE]

(***************************************************************************)
(* interrupts.c: the interrupt mask.  ret carries the value disable        *)
(* returns.                                                                *)
(***************************************************************************)
I ==
  [interrupt_state |-> interrupt_state, int_state_stack |-> int_state_stack,
   int_stack_ptr |-> int_stack_ptr, ret |-> 0]

irq_init(i) == [i EXCEPT !.interrupt_state = 1, !.int_stack_ptr = 0]

enable(i) == [i EXCEPT !.interrupt_state = 0, !.int_stack_ptr = 0]

(* disable returning the state it has just set. *)
disable_returns_new_state(i) ==
  IF i.int_stack_ptr < INT_STACK_SIZE
  THEN [i EXCEPT !.interrupt_state = 1,
                 !.int_state_stack[i.int_stack_ptr] = i.interrupt_state,
                 !.int_stack_ptr = @ + 1,
                 !.ret = 1]
  ELSE [i EXCEPT !.interrupt_state = 1, !.ret = 1]

disable(i) ==
  IF i.int_stack_ptr < INT_STACK_SIZE
  THEN [i EXCEPT !.interrupt_state = 1,
                 !.int_state_stack[i.int_stack_ptr] = i.interrupt_state,
                 !.int_stack_ptr = @ + 1,
                 !.ret = i.interrupt_state]
  ELSE [i EXCEPT !.interrupt_state = 1, !.ret = i.interrupt_state]

restore(i, mask) ==
  [i EXCEPT !.interrupt_state = mask,
            !.int_stack_ptr = IF @ > 0 THEN @ - 1 ELSE @]

(* The pair that wraps a primitive: mask = disable() at its entry and      *)
(* restore(mask) at its exit.                                              *)
restore_saved(d) == restore(d, d.ret)
critical_section(i) == restore_saved(disable(i))

(* The pair of primitive op.  clkhandler has no pair of its own: it runs   *)
(* with interrupts masked by the hardware.  A call that is refused returns *)
(* before its pair or after it; the pair leaves interrupt_state as it was  *)
(* in either case, and is left out.                                        *)
section_of(i, op) ==
  IF op \in {"clkhandler", "refused"} THEN i ELSE critical_section(i)

(***************************************************************************)
(* memory.c: the stack pool.  mhead is the free list as the sequence of    *)
(* its blocks, in address order; addresses are offsets into stack_memory.  *)
(***************************************************************************)
InsertAt(b, i, e) == SubSeq(b, 1, i - 1) \o <<e>> \o SubSeq(b, i, Len(b))
RemoveAt(b, i) == SubSeq(b, 1, i - 1) \o SubSeq(b, i + 1, Len(b))

stkinit(k, stksize) ==
  IF stksize < MIN_BLOCK_SIZE THEN [k EXCEPT !.ret = SYSERR]
  ELSE [k EXCEPT !.stkpool = [mhead |-> <<[addr |-> 0, mlength |-> stksize]>>,
                              mfree |-> stksize, mtotal |-> stksize],
                 !.ret = OK]

(* init_memory is called by kernel_init and is defined by no file; it is   *)
(* taken to set the pool up as mem_init_default does.                      *)
init_memory(k) == stkinit(k, STACK_SIZE)

(* The first-fit search of getstk: the index of the first block of at      *)
(* least length units, or 0.                                               *)
RECURSIVE getstk_scan(_, _, _)
getstk_scan(b, length, i) ==
  IF i > Len(b) THEN 0
  ELSE IF b[i].mlength >= length THEN i
  ELSE getstk_scan(b, length, i + 1)

(* getstk once the search has ended at block i: the block is split, the    *)
(* stack being its high end, or used whole.  The top of the stack is left  *)
(* in aux.                                                                 *)
getstk_take(k, length, i) ==
  IF i = 0 THEN [k EXCEPT !.aux = SYSERR]
  ELSE IF k.stkpool.mhead[i].mlength >= length + MIN_BLOCK_SIZE
  THEN [k EXCEPT !.stkpool.mhead[i].mlength = @ - length,
                 !.stkpool.mfree = @ - length,
                 !.aux = k.stkpool.mhead[i].addr + k.stkpool.mhead[i].mlength - MEMBLK]
  ELSE [k EXCEPT !.stkpool.mhead = RemoveAt(@, i),
                 !.stkpool.mfree = @ - k.stkpool.mhead[i].mlength,
                 !.aux = k.stkpool.mhead[i].addr + k.stkpool.mhead[i].mlength - MEMBLK]

getstk(k, nbytes) ==
  IF nbytes = 0 THEN [k EXCEPT !.aux = SYSERR]
  ELSE getstk_take(k, nbytes + MEMBLK, getstk_scan(k.stkpool.mhead, nbytes + MEMBLK, 1))

(* The walk of freestk over the free list: the index of the last block     *)
(* below address a, or 0.                                                  *)
RECURSIVE freestk_walk(_, _, _)
freestk_walk(b, a, i) ==
  IF i > Len(b) \/ b[i].addr >= a THEN i - 1 ELSE freestk_walk(b, a, i + 1)

(* The block at index i joined with the block that follows it, and with    *)
(* the block before it, when they touch.                                   *)
freestk_next(b, i) ==
  IF i < Len(b) /\ b[i].addr + b[i].mlength = b[i + 1].addr
  THEN [RemoveAt(b, i + 1) EXCEPT ![i].mlength = b[i].mlength + b[i + 1].mlength]
  ELSE b

freestk_prev(b, i) ==
  IF i > 1 /\ b[i - 1].addr + b[i - 1].mlength = b[i].addr
  THEN [RemoveAt(b, i) EXCEPT ![i - 1].mlength = b[i - 1].mlength + b[i].mlength]
  ELSE b

(* freestk from the insertion of blk after the block at index prev. *)
freestk_link(b, blk, prev) ==
  freestk_prev(freestk_next(InsertAt(b, prev + 1, blk), prev + 1), prev + 1)

(* freestk: the block is rebuilt from the top of the stack and the size   *)
(* the caller names, nbytes + MEMBLK units ending at the header below the  *)
(* top; mfree grows by that length.                                        *)
freestk(k, stktop, nbytes) ==
  IF stktop = 0 \/ nbytes = 0 THEN [k EXCEPT !.ret = SYSERR]
  ELSE [k EXCEPT !.stkpool.mhead =
                   freestk_link(@, [addr |-> stktop - nbytes, mlength |-> nbytes + MEMBLK],
                                freestk_walk(@, stktop - nbytes, 1)),
                 !.stkpool.mfree = @ + nbytes + MEMBLK,
                 !.ret = OK]

(***************************************************************************)
(* queue.c                                                                 *)
(***************************************************************************)
init_queues(k) ==
  [k EXCEPT !.queuetab =
              [i \in 0 .. (NQENT - 1) |->
                 [key |-> 0,
                  next |-> IF i = NQENT - 1 THEN EMPTY ELSE i + 1,
                  prev |-> IF i = 0 THEN EMPTY ELSE i - 1,
                  state |-> QE_FREE]],
            !.qfree = 0]

(* Take the first entry of the free list; the entry is left in aux. *)
qalloc(k) ==
  [k EXCEPT !.queuetab = IF k.queuetab[k.qfree].next # EMPTY
                         THEN [@ EXCEPT ![k.queuetab[k.qfree].next].prev = EMPTY]
                         ELSE @,
            !.qfree = k.queuetab[k.qfree].next,
            !.aux = k.qfree]

(* Return entry e to the front of the free list. *)
qrelease(k, e) ==
  [k EXCEPT !.queuetab[e].state = QE_FREE,
            !.queuetab[e].next = k.qfree,
            !.queuetab = IF k.qfree # EMPTY THEN [@ EXCEPT ![k.qfree].prev = e] ELSE @,
            !.qfree = e]

(* newqueue once both sentinels are allocated: b is the table, head and    *)
(* b.aux the entries.                                                      *)
newqueue_link(b, head) ==
  [b EXCEPT !.queuetab[head] =
              [state |-> QE_HEAD, key |-> MAXINT, prev |-> EMPTY, next |-> b.aux],
            !.queuetab[b.aux] =
              [state |-> QE_TAIL, key |-> MININT, prev |-> head, next |-> EMPTY],
            !.ret = head]

newqueue_tail(a) == newqueue_link(qalloc(a), a.aux)

newqueue(k) ==
  IF k.qfree = EMPTY \/ k.queuetab[k.qfree].next = EMPTY
  THEN [k EXCEPT !.ret = SYSERR]
  ELSE newqueue_tail(qalloc(k))

(* freequeue that returns the head sentinel only. *)
freequeue_leaks_tail(k, q) ==
  IF q < 0 \/ q >= NQENT THEN [k EXCEPT !.ret = SYSERR]
  ELSE IF k.queuetab[q].state # QE_HEAD THEN [k EXCEPT !.ret = SYSERR]
  ELSE IF k.queuetab[q].next = EMPTY \/ k.queuetab[k.queuetab[q].next].state # QE_TAIL
  THEN [k EXCEPT !.ret = SYSERR]
  ELSE IF k.queuetab[k.queuetab[q].next].prev # q THEN [k EXCEPT !.ret = SYSERR]
  ELSE [qrelease(k, q) EXCEPT !.ret = OK]

freequeue(k, q) ==
  IF q < 0 \/ q >= NQENT THEN [k EXCEPT !.ret = SYSERR]
  ELSE IF k.queuetab[q].state # QE_HEAD THEN [k EXCEPT !.ret = SYSERR]
  ELSE IF k.queuetab[q].next = EMPTY \/ k.queuetab[k.queuetab[q].next].state # QE_TAIL
  THEN [k EXCEPT !.ret = SYSERR]
  ELSE IF k.queuetab[k.queuetab[q].next].prev # q THEN [k EXCEPT !.ret = SYSERR]
  ELSE [qrelease(qrelease(k, q), k.queuetab[q].next) EXCEPT !.ret = OK]

isempty(k, q) ==
  IF q < 0 \/ q >= NQENT \/ k.queuetab[q].state # QE_HEAD
  THEN TRUE
  ELSE /\ k.queuetab[k.queuetab[q].next].state = QE_TAIL
       /\ k.queuetab[k.queuetab[q].next].prev = q

nonempty(k, q) == ~isempty(k, q)

firstid(k, q) ==
  IF q < 0 \/ q >= NQENT \/ k.queuetab[q].state # QE_HEAD
  THEN EMPTY
  ELSE IF k.queuetab[k.queuetab[q].next].state = QE_TAIL THEN EMPTY
  ELSE k.queuetab[k.queuetab[q].next].key

(* dequeue, unlinking the entry first; the removed pid is left in ret. *)
dequeue_first(k, q, first) ==
  [qrelease([k EXCEPT !.queuetab[q].next = k.queuetab[first].next,
                      !.queuetab[k.queuetab[first].next].prev = q],
            first)
   EXCEPT !.ret = k.queuetab[first].key]

(* dequeue: the removed pid (or EMPTY) is left in ret. *)
dequeue(k, q) ==
  IF q < 0 \/ q >= NQENT THEN [k EXCEPT !.ret = EMPTY]
  ELSE IF k.queuetab[q].state # QE_HEAD THEN [k EXCEPT !.ret = EMPTY]
  ELSE IF k.queuetab[k.queuetab[q].next].state = QE_TAIL THEN [k EXCEPT !.ret = EMPTY]
  ELSE dequeue_first(k, q, k.queuetab[q].next)

(* The walk of insertd without the adjustment of the successor's delta. *)
RECURSIVE insertd_walk_keeps_delta(_, _, _)
insertd_walk_keeps_delta(k, curr, key) ==
  IF k.queuetab[curr].state = QE_PROC
  THEN IF key < k.proctab[k.queuetab[curr].key].pargs
       THEN [k |-> k, curr |-> curr, key |-> key]
       ELSE insertd_walk_keeps_delta(k, k.queuetab[curr].next,
                                     key - k.proctab[k.queuetab[curr].key].pargs)
  ELSE [k |-> k, curr |-> curr, key |-> key]

(* The walk of insertd: the deltas are the pargs fields of the queued pids. *)
RECURSIVE insertd_walk(_, _, _)
insertd_walk(k, curr, key) ==
  IF k.queuetab[curr].state = QE_PROC
  THEN IF key < k.proctab[k.queuetab[curr].key].pargs
       THEN [k |-> [k EXCEPT !.proctab[k.queuetab[curr].key].pargs = @ - key],
             curr |-> curr, key |-> key]
       ELSE insertd_walk(k, k.queuetab[curr].next,
                         key - k.proctab[k.queuetab[curr].key].pargs)
  ELSE [k |-> k, curr |-> curr, key |-> key]

(* insertd after the walk w: entry is linked before w.curr with delta w.key. *)
insertd_link(w, entry, pid) ==
  [w.k EXCEPT !.queuetab[entry] =
                [state |-> QE_PROC, key |-> pid, next |-> w.curr,
                 prev |-> w.k.queuetab[w.curr].prev],
              !.proctab[pid].pargs = w.key,
              !.queuetab[w.k.queuetab[w.curr].prev].next = entry,
              !.queuetab[w.curr].prev = entry,
              !.ret = OK]

insertd_entry(a, pid, q, key) ==
  insertd_link(insertd_walk(a, a.queuetab[q].next, key), a.aux, pid)

(* insertd that walks the delta list, adjusting the delta of the          *)
(* successor, before it looks at the free list.                            *)
insertd_adjusts_first(k, pid, q, key) ==
  IF q < 0 \/ q >= NQENT \/ pid < 0 \/ pid >= NPROC THEN [k EXCEPT !.ret = SYSERR]
  ELSE IF k.queuetab[q].state # QE_HEAD THEN [k EXCEPT !.ret = SYSERR]
  ELSE IF k.qfree = EMPTY
  THEN [insertd_walk(k, k.queuetab[q].next, key).k EXCEPT !.ret = SYSERR]
  ELSE insertd_entry(qalloc(k), pid, q, key)

insertd(k, pid, q, key) ==
  IF q < 0 \/ q >= NQENT \/ pid < 0 \/ pid >= NPROC THEN [k EXCEPT !.ret = SYSERR]
  ELSE IF k.queuetab[q].state # QE_HEAD THEN [k EXCEPT !.ret = SYSERR]
  ELSE IF k.qfree = EMPTY THEN [k EXCEPT !.ret = SYSERR]
  ELSE insertd_entry(qalloc(k), pid, q, key)

(* enqueue: the walk to the tail of queue q, which comes before the test   *)
(* of the free list.                                                       *)
RECURSIVE enqueue_tail(_, _, _)
enqueue_tail(k, tail, fuel) ==
  IF fuel = 0 \/ tail < 0 \/ tail >= NQENT THEN NONE
  ELSE IF k.queuetab[tail].state = QE_TAIL THEN tail
  ELSE enqueue_tail(k, k.queuetab[tail].next, fuel - 1)

enqueue_entry(a, pid, tail) ==
  [a EXCEPT !.queuetab[a.aux] =
              [state |-> QE_PROC, key |-> pid, next |-> tail,
               prev |-> a.queuetab[tail].prev],
            !.queuetab[a.queuetab[tail].prev].next = a.aux,
            !.queuetab[tail].prev = a.aux,
            !.ret = OK]

enqueue_at(k, pid, tail) ==
  IF tail = NONE THEN [k EXCEPT !.hung = TRUE, !.ret = SYSERR]
  ELSE IF k.qfree = EMPTY THEN [k EXCEPT !.ret = SYSERR]
  ELSE enqueue_entry(qalloc(k), pid, tail)

enqueue(k, pid, q) ==
  IF q < 0 \/ q >= NQENT \/ pid < 0 \/ pid >= NPROC THEN [k EXCEPT !.ret = SYSERR]
  ELSE IF k.queuetab[q].state # QE_HEAD THEN [k EXCEPT !.ret = SYSERR]
  ELSE enqueue_at(k, pid, enqueue_tail(k, k.queuetab[q].next, NQENT))

(* insert: the key field of an entry holds its pid, and the walk compares  *)
(* that field with the key of the call.                                    *)
RECURSIVE insert_walk(_, _, _)
insert_walk(k, curr, key) ==
  IF k.queuetab[curr].state = QE_PROC /\ k.queuetab[curr].key >= key
  THEN insert_walk(k, k.queuetab[curr].next, key)
  ELSE curr

insert_entry(a, pid, curr) ==
  [a EXCEPT !.queuetab[a.aux] =
              [state |-> QE_PROC, key |-> pid, next |-> curr,
               prev |-> a.queuetab[curr].prev],
            !.queuetab[a.queuetab[curr].prev].next = a.aux,
            !.queuetab[curr].prev = a.aux,
            !.ret = OK]

insert_alloc(a, pid, q, key) ==
  insert_entry(a, pid, insert_walk(a, a.queuetab[q].next, key))

insert(k, pid, q, key) ==
  IF q < 0 \/ q >= NQENT \/ pid < 0 \/ pid >= NPROC THEN [k EXCEPT !.ret = SYSERR]
  ELSE IF k.queuetab[q].state # QE_HEAD THEN [k EXCEPT !.ret = SYSERR]
  ELSE IF k.qfree = EMPTY THEN [k EXCEPT !.ret = SYSERR]
  ELSE insert_alloc(qalloc(k), pid, q, key)

(* The walk of getitem: the entry that holds pid, or EMPTY when the walk    *)
(* leaves the process entries without finding it.                          *)
RECURSIVE getitem_walk(_, _, _, _)
getitem_walk(k, curr, pid, fuel) ==
  IF curr = EMPTY \/ fuel = 0 THEN NONE
  ELSE IF k.queuetab[curr].state # QE_PROC THEN EMPTY
  ELSE IF k.queuetab[curr].key = pid THEN curr
  ELSE getitem_walk(k, k.queuetab[curr].next, pid, fuel - 1)

(* getitem once the entry is found: unlink it and return it to the free    *)
(* list.  The delta of the entry is not handed to its successor.           *)
getitem_unlink(k, curr) ==
  [qrelease([k EXCEPT !.queuetab[k.queuetab[curr].prev].next = k.queuetab[curr].next,
                      !.queuetab[k.queuetab[curr].next].prev = k.queuetab[curr].prev],
            curr)
   EXCEPT !.ret = OK]

getitem_found(k, curr) ==
  IF curr = NONE THEN [k EXCEPT !.hung = TRUE, !.ret = SYSERR]
  ELSE IF curr = EMPTY THEN [k EXCEPT !.ret = SYSERR]
  ELSE getitem_unlink(k, curr)

getitem(k, pid, q) ==
  IF q < 0 \/ q >= NQENT \/ pid < 0 \/ pid >= NPROC THEN [k EXCEPT !.ret = SYSERR]
  ELSE IF k.queuetab[q].state # QE_HEAD THEN [k EXCEPT !.ret = SYSERR]
  ELSE getitem_found(k, getitem_walk(k, k.queuetab[q].next, pid, NQENT))

(* The pids queued on q, from the head sentinel to the tail sentinel. *)
RECURSIVE qchain(_, _, _)
qchain(qt, e, fuel) ==
  IF e = EMPTY \/ fuel = 0 \/ qt[e].state # QE_PROC THEN <<>>
  ELSE <<qt[e].key>> \o qchain(qt, qt[e].next, fuel - 1)

qpids(qt, q) == IF q < 0 \/ q >= NQENT THEN <<>> ELSE qchain(qt, qt[q].next, NQENT)

(***************************************************************************)
(* kernel.c: initialisation and the ready list, linked through pwait       *)
(***************************************************************************)
kernel_init(k) ==
  [init_memory(k)
     EXCEPT !.proctab =
              [i \in Pids |->
                 [pstate |-> IF i = 0 THEN PR_CURR ELSE PR_FREE,
                  pprio |-> IF i = 0 THEN PRIORITY_MIN ELSE PRIORITY_DEFAULT,
                  pwait |-> -1, pargs |-> 0, pmsg |-> 0, phasmsg |-> FALSE,
                  pstkbase |-> 0, pstklen |-> 0]],
            !.semtab = [i \in Sems |-> [count |-> 0, queue |-> -1]],
            !.currpid = 0,
            !.readylist_head = -1,
            !.readylist_tail = -1]

(* The insertion walk of enqueue_ready.  A walk of more than NPROC links   *)
(* has entered a cycle of pwait links and never ends.                      *)
RECURSIVE enqueue_walk(_, _, _, _, _)
enqueue_walk(k, prev, curr, prio, fuel) ==
  IF curr # -1 /\ k.proctab[curr].pprio >= prio
  THEN IF fuel = 0 THEN [prev |-> prev, curr |-> curr, hang |-> TRUE]
       ELSE enqueue_walk(k, curr, k.proctab[curr].pwait, prio, fuel - 1)
  ELSE [prev |-> prev, curr |-> curr, hang |-> FALSE]

(* enqueue_ready after the walk w. *)
enqueue_link(k, pid, w) ==
  IF w.hang THEN [k EXCEPT !.hung = TRUE]
  ELSE [k EXCEPT !.proctab[pid].pwait = w.curr,
                 !.proctab = IF w.prev = -1 THEN @ ELSE [@ EXCEPT ![w.prev].pwait = pid],
                 !.readylist_head = IF w.prev = -1 THEN pid ELSE @,
                 !.readylist_tail = IF w.curr = -1 THEN pid ELSE @]

enqueue_ready(k, pid) ==
  enqueue_link(k, pid,
               enqueue_walk(k, -1, k.readylist_head, k.proctab[pid].pprio, NPROC))

(* dequeue_ready: the removed pid (or -1) is left in aux. *)
dequeue_ready(k) ==
  IF k.readylist_head = -1 THEN [k EXCEPT !.aux = -1]
  ELSE [k EXCEPT !.readylist_head = k.proctab[k.readylist_head].pwait,
                 !.proctab[k.readylist_head].pwait = -1,
                 !.readylist_tail = IF k.proctab[k.readylist_head].pwait = -1
                                    THEN -1 ELSE @,
                 !.aux = k.readylist_head]

RECURSIVE remove_walk(_, _, _, _, _)
remove_walk(k, prev, curr, pid, fuel) ==
  IF curr # -1 /\ curr # pid
  THEN IF fuel = 0 THEN [prev |-> prev, curr |-> curr, hang |-> TRUE]
       ELSE remove_walk(k, curr, k.proctab[curr].pwait, pid, fuel - 1)
  ELSE [prev |-> prev, curr |-> curr, hang |-> FALSE]

(* remove_from_ready after the walk w. *)
remove_link(k, pid, w) ==
  IF w.hang THEN [k EXCEPT !.hung = TRUE]
  ELSE IF w.curr = pid
  THEN [k EXCEPT !.proctab = IF w.prev = -1 THEN @
                             ELSE [@ EXCEPT ![w.prev].pwait = k.proctab[pid].pwait],
                 !.proctab[pid].pwait = -1,
                 !.readylist_head = IF w.prev = -1 THEN k.proctab[pid].pwait ELSE @,
                 !.readylist_tail = IF @ = pid THEN w.prev ELSE @]
  ELSE k

remove_from_ready(k, pid) ==
  remove_link(k, pid, remove_walk(k, -1, k.readylist_head, pid, NPROC))

(* The pids linked from the head of the ready list. *)
RECURSIVE pchain(_, _, _)
pchain(pt, p, fuel) ==
  IF p = -1 \/ fuel = 0 THEN <<>>
  ELSE <<p>> \o pchain(pt, pt[p].pwait, fuel - 1)

readylist(k) == pchain(k.proctab, k.readylist_head, NPROC)

context_switch(k, oldpid, newpid) ==
  IF oldpid = newpid THEN k
  ELSE [k EXCEPT !.currpid = newpid, !.proctab[newpid].pstate = PR_CURR]

(***************************************************************************)
(* semaphore.c: the wait queues, linked through pwait                      *)
(***************************************************************************)
init_semaphores(k) ==
  [k EXCEPT !.semtab = [i \in Sems |->
                          [count |-> IF i = NSEM - 1 THEN -1 ELSE i + 1, queue |-> -1]],
            !.sem_queues = [i \in Sems |-> [head |-> -1, tail |-> -1]],
            !.semfree = 0]

enqueue_sem(k, sem, pid) ==
  IF k.sem_queues[sem].tail = -1
  THEN [k EXCEPT !.sem_queues[sem] = [head |-> pid, tail |-> pid],
                 !.proctab[pid].pwait = -1]
  ELSE [k EXCEPT !.proctab[k.sem_queues[sem].tail].pwait = pid,
                 !.sem_queues[sem].tail = pid,
                 !.proctab[pid].pwait = -1]

(* dequeue_sem: the removed pid (or -1) is left in aux. *)
dequeue_sem(k, sem) ==
  IF k.sem_queues[sem].head = -1 THEN [k EXCEPT !.aux = -1]
  ELSE [k EXCEPT !.sem_queues[sem].head = k.proctab[k.sem_queues[sem].head].pwait,
                 !.sem_queues[sem].tail =
                    IF k.proctab[k.sem_queues[sem].head].pwait = -1 THEN -1 ELSE @,
                 !.proctab[k.sem_queues[sem].head].pwait = -1,
                 !.aux = k.sem_queues[sem].head]

semqueue(k, sem) == pchain(k.proctab, k.sem_queues[sem].head, NPROC)

(***************************************************************************)
(* The scheduler (kernel.c), ready (process.c) and the clock handler       *)
(* (clock.c).  context_switch stands for the assembly switch: the process  *)
(* switched in continues in the primitive it was suspended in (pcall), the *)
(* process switched out continues there when it is next made current.      *)
(* Every function that reaches resched is followed by what the process     *)
(* that is current afterwards does next (after_switch).                    *)
(***************************************************************************)
RECURSIVE after_switch(_)

(* resched marking the process it takes from the ready list CURRENT        *)
(* without making it the current process.                                  *)
resched_run_keeps_currpid(k2, oldpid) ==
  [k2 EXCEPT !.proctab[IF k2.aux = -1 THEN 0 ELSE k2.aux].pstate = PR_CURR]

(* resched from "Select next process to run": k2 is the state after        *)
(* dequeue_ready, which left the pid in aux.                               *)
resched_run(k2, oldpid) ==
  context_switch([k2 EXCEPT !.proctab[IF k2.aux = -1 THEN 0 ELSE k2.aux].pstate = PR_CURR,
                            !.currpid = IF k2.aux = -1 THEN 0 ELSE k2.aux],
                 oldpid, IF k2.aux = -1 THEN 0 ELSE k2.aux)

resched_select(k1, oldpid) ==
  IF k1.hung THEN k1 ELSE resched_run(dequeue_ready(k1), oldpid)

(* resched that preempts without taking the state CURRENT from the        *)
(* process it switches out.                                                *)
resched_keeps_old_current(k) ==
  IF k.proctab[k.currpid].pstate = PR_CURR
  THEN IF k.readylist_head # -1
          /\ k.proctab[k.readylist_head].pprio > k.proctab[k.currpid].pprio
       THEN resched_select(enqueue_ready(k, k.currpid), k.currpid)
       ELSE k
  ELSE resched_select(k, k.currpid)

(* resched up to its return, without what the resumed process does next. *)
resched_switch(k) ==
  IF k.proctab[k.currpid].pstate = PR_CURR
  THEN IF k.readylist_head # -1
          /\ k.proctab[k.readylist_head].pprio > k.proctab[k.currpid].pprio
       THEN resched_select(
              enqueue_ready([k EXCEPT !.proctab[k.currpid].pstate = PR_READY], k.currpid),
              k.currpid)
       ELSE k
  ELSE resched_select(k, k.currpid)

resched(k) == IF k.hung THEN k ELSE after_switch(resched_switch(k))

ready(k, pid, resched_flag) ==
  IF pid < 0 \/ pid >= NPROC THEN k
  ELSE IF k.proctab[pid].pstate = PR_FREE THEN k
  ELSE IF resched_flag THEN resched([k EXCEPT !.proctab[pid].pstate = PR_READY])
  ELSE [k EXCEPT !.proctab[pid].pstate = PR_READY]

(* The preemption step that ends clkhandler; preempt_count is unsigned, so *)
(* a count of 0 decrements to the largest value.                           *)
predecrement(c) == IF c = 0 THEN UINT32_WRAP ELSE c - 1

clk_preempt(k) ==
  IF predecrement(k.preempt_count) <= 0
  THEN resched([k EXCEPT !.preempt_count = k.time_quantum])
  ELSE [k EXCEPT !.preempt_count = predecrement(@)]

RECURSIVE wakeup(_, _)

(* The end of one turn of wakeup's loop: slnempty is recomputed and the    *)
(* loop condition is evaluated again.                                      *)
wakeup_rest(x, rf) ==
  wakeup([x EXCEPT !.slnempty = IF nonempty(x, x.sleepq) THEN 1 ELSE 0], rf)

(* The body of wakeup's loop after dequeue, which left the pid in d.ret.   *)
(* rf is the value received by ready's resched_flag parameter, which the   *)
(* call ready(pid) leaves unset.  When that call switches the handler's    *)
(* process out, the rest of the handler runs when the process is switched  *)
(* in again.                                                               *)
wakeup_pid(d, rf) ==
  IF d.ret # EMPTY /\ d.ret >= 0 /\ d.ret < NPROC /\ d.proctab[d.ret].pstate = PR_SLEEP
  THEN IF rf
       THEN ready([d EXCEPT !.pcall[d.currpid] = [op |-> "wakeup", arg |-> 1]],
                  d.ret, TRUE)
       ELSE wakeup_rest(ready(d, d.ret, FALSE), rf)
  ELSE wakeup_rest(d, rf)

(* wakeup with f = firstid(sleepq), followed by the rest of clkhandler. *)
wakeup_head(k, rf, f) ==
  IF k.slnempty # 0 /\ f = EMPTY THEN [k EXCEPT !.hung = TRUE]
  ELSE IF k.slnempty # 0 /\ k.proctab[f].pargs <= 0
  THEN wakeup_pid(dequeue(k, k.sleepq), rf)
  ELSE clk_preempt(IF k.slnempty # 0 /\ f # EMPTY /\ f >= 0 /\ f < NPROC
                   THEN [k EXCEPT !.proctab[f].pargs = @ - 1]
                   ELSE k)

wakeup(k, rf) == IF k.hung THEN k ELSE wakeup_head(k, rf, firstid(k, k.sleepq))

(* undefer_clock's replay of the deferred ticks.  wakeup is written out    *)
(* again with what follows it there: n more turns of the replay loop and   *)
(* the closing resched, instead of the preemption step of clkhandler.      *)
RECURSIVE undefer_wakeup(_, _, _)
RECURSIVE undefer_loop(_, _, _)

undefer_rest(x, rf, n) ==
  undefer_wakeup([x EXCEPT !.slnempty = IF nonempty(x, x.sleepq) THEN 1 ELSE 0], rf, n)

undefer_pid(d, rf, n) ==
  IF d.ret # EMPTY /\ d.ret >= 0 /\ d.ret < NPROC /\ d.proctab[d.ret].pstate = PR_SLEEP
  THEN IF rf
       THEN ready([d EXCEPT !.pcall[d.currpid] = [op |-> "undefer", arg |-> n]],
                  d.ret, TRUE)
       ELSE undefer_rest(ready(d, d.ret, FALSE), rf, n)
  ELSE undefer_rest(d, rf, n)

undefer_head(k, rf, n, f) ==
  IF k.slnempty # 0 /\ f = EMPTY THEN [k EXCEPT !.hung = TRUE]
  ELSE IF k.slnempty # 0 /\ k.proctab[f].pargs <= 0
  THEN undefer_pid(dequeue(k, k.sleepq), rf, n)
  ELSE undefer_loop(IF k.slnempty # 0 /\ f # EMPTY /\ f >= 0 /\ f < NPROC
                    THEN [k EXCEPT !.proctab[f].pargs = @ - 1]
                    ELSE k,
                    rf, n)

undefer_wakeup(k, rf, n) ==
  IF k.hung THEN k ELSE undefer_head(k, rf, n, firstid(k, k.sleepq))

(* while (deferred-- > 0) { process_timers(); wakeup(); } resched(); *)
undefer_loop(k, rf, deferred) ==
  IF k.hung THEN k
  ELSE IF deferred > 0 THEN undefer_wakeup(k, rf, deferred - 1)
  ELSE resched(k)

(* What the current process does when resched returns to it. *)
after_switch(k) ==
  IF k.hung THEN k
  ELSE IF k.pcall[k.currpid].op = "wait"
  THEN [k EXCEPT !.pcall[k.currpid] = NoCall,
                 !.woke =
                    [pid |-> k.currpid, op |-> "wait", sem |-> k.pcall[k.currpid].arg,
                     ret |-> IF k.semtab[k.pcall[k.currpid].arg].queue = -1
                             THEN SYSERR ELSE OK]]
  ELSE IF k.pcall[k.currpid].op = "timedwait"
  THEN [k EXCEPT !.pcall[k.currpid] = NoCall,
                 !.woke =
                    [pid |-> k.currpid, op |-> "timedwait", sem |-> k.pcall[k.currpid].arg,
                     ret |-> IF k.semtab[k.pcall[k.currpid].arg].queue = -1
                             THEN SYSERR ELSE OK]]
  ELSE IF k.pcall[k.currpid].op = "receive"
  THEN IF k.proctab[k.currpid].phasmsg
       THEN [k EXCEPT !.pcall[k.currpid] = NoCall,
                      !.proctab[k.currpid].phasmsg = FALSE,
                      !.woke = [pid |-> k.currpid, op |-> "receive", sem |-> NONE,
                                ret |-> k.proctab[k.currpid].pmsg]]
       ELSE resched([k EXCEPT !.proctab[k.currpid].pstate = PR_RECV])
  ELSE IF k.pcall[k.currpid].op = "wakeup"
  THEN wakeup_rest([k EXCEPT !.pcall[k.currpid] = NoCall], k.pcall[k.currpid].arg = 1)
  ELSE IF k.pcall[k.currpid].op = "undefer"
  THEN undefer_rest([k EXCEPT !.pcall[k.currpid] = NoCall], TRUE, k.pcall[k.currpid].arg)
  ELSE k

(* clkhandler that leaves a deferred tick out of the tick counter. *)
clkhandler_skips_deferred_tick(k, rf) ==
  IF k.clkdefer > 0
  THEN [k EXCEPT !.clkdefer = @ + 1]
  ELSE wakeup([k EXCEPT !.clkticks = @ + 1], rf)

(* clkhandler of clock.c.  The second and uptime counters are not          *)
(* modelled; no software timer is created, so process_timers does nothing. *)
clkhandler(k, rf) ==
  IF k.clkdefer > 0
  THEN [k EXCEPT !.clkticks = @ + 1, !.clkdefer = @ + 1]
  ELSE wakeup([k EXCEPT !.clkticks = @ + 1], rf)

(* clkinit after newqueue, which left the queue in n.ret. *)
clkinit_queue(n) ==
  IF n.ret = SYSERR THEN n
  ELSE [n EXCEPT !.sleepq = n.ret, !.slnempty = 0, !.ret = OK]

clkinit(k) ==
  clkinit_queue(newqueue([k EXCEPT !.clkticks = 0, !.clkdefer = 0,
                                   !.preempt_count = k.time_quantum]))

sleep(k, delay) ==
  IF delay = 0 THEN [k EXCEPT !.ret = OK]
  ELSE IF k.currpid < 0 \/ k.currpid >= NPROC THEN [k EXCEPT !.ret = SYSERR]
  ELSE [resched([insertd([k EXCEPT !.proctab[k.currpid].pstate = PR_SLEEP,
                                   !.proctab[k.currpid].pargs = delay],
                         k.currpid, k.sleepq, delay)
                 EXCEPT !.slnempty = 1])
        EXCEPT !.ret = OK]

(* unsleep as clock.c defines it. *)
unsleep_status(g, pid) ==
  IF g.ret = OK
  THEN [g EXCEPT !.proctab[pid].pstate = PR_SUSP,
                 !.slnempty = IF nonempty(g, g.sleepq) THEN 1 ELSE 0]
  ELSE g

unsleep(k, pid) ==
  IF pid < 0 \/ pid >= NPROC THEN [k EXCEPT !.ret = SYSERR]
  ELSE IF k.proctab[pid].pstate # PR_SLEEP THEN [k EXCEPT !.ret = SYSERR]
  ELSE unsleep_status(getitem(k, pid, k.sleepq), pid)

(* unsleep as process.c defines it: the same symbol, defined a second time. *)
process_unsleep(k, pid) ==
  IF pid < 0 \/ pid >= NPROC THEN [k EXCEPT !.ret = SYSERR]
  ELSE IF k.proctab[pid].pstate # PR_SLEEP THEN [k EXCEPT !.ret = SYSERR]
  ELSE [ready([k EXCEPT !.proctab[pid].pargs = 0], pid, FALSE) EXCEPT !.ret = OK]

defer_clock(k) == [k EXCEPT !.clkdefer = 1]

(* undefer_clock replaying one tick more than were deferred. *)
undefer_clock_replays_one_more(k, rf) ==
  IF k.clkdefer > 1
  THEN undefer_loop([k EXCEPT !.clkdefer = 0], rf, k.clkdefer)
  ELSE [k EXCEPT !.clkdefer = 0]

undefer_clock(k, rf) ==
  IF k.clkdefer > 1
  THEN undefer_loop([k EXCEPT !.clkdefer = 0], rf, k.clkdefer - 1)
  ELSE [k EXCEPT !.clkdefer = 0]

yield_quantum(k) == resched([k EXCEPT !.preempt_count = 0])

(* n clock interrupts in a row, each handled by clkhandler. *)
RECURSIVE clkhandler_times(_, _, _)
clkhandler_times(k, rf, n) ==
  IF n = 0 THEN k ELSE clkhandler_times(clkhandler(k, rf), rf, n - 1)

(***************************************************************************)
(* semaphore.c: the primitives                                             *)
(***************************************************************************)
semcreate(k, count) ==
  IF count < 0 THEN [k EXCEPT !.ret = SYSERR]
  ELSE IF k.semfree = -1 THEN [k EXCEPT !.ret = SYSERR]
  ELSE IF k.semfree \notin Sems THEN [k EXCEPT !.hung = TRUE, !.ret = SYSERR]
  ELSE [k EXCEPT !.semfree = k.semtab[k.semfree].count,
                 !.semtab[k.semfree] = [count |-> count, queue |-> 0],
                 !.sem_queues[k.semfree] = [head |-> -1, tail |-> -1],
                 !.ret = k.semfree]

(* The loop of semdelete that makes every queued pid READY. *)
RECURSIVE wake_all(_, _)

wake_next(d, sem) ==
  IF d.aux = -1 THEN d
  ELSE wake_all([d EXCEPT !.proctab[d.aux].pstate = PR_READY], sem)

wake_all(k, sem) == wake_next(dequeue_sem(k, sem), sem)

(* semdelete that marks the slot free without linking it on the free list. *)
semdelete_forgets_slot(k1, sem) ==
  resched([k1 EXCEPT !.semtab[sem] = [count |-> k1.semfree, queue |-> -1]])

(* semdelete from "Return semaphore to free list". *)
semdelete_free(k1, sem) ==
  resched([k1 EXCEPT !.semtab[sem] = [count |-> k1.semfree, queue |-> -1],
                     !.semfree = sem])

semdelete(k, sem) ==
  IF sem < 0 \/ sem >= NSEM THEN [k EXCEPT !.ret = SYSERR]
  ELSE IF k.semtab[sem].queue = -1 THEN [k EXCEPT !.ret = SYSERR]
  ELSE [semdelete_free(wake_all(k, sem), sem) EXCEPT !.ret = OK]

(* wait with the test of the count off by one: the caller also blocks when *)
(* it has taken the last unit of the semaphore.                            *)
wait_blocks_at_zero(k, sem) ==
  IF sem < 0 \/ sem >= NSEM THEN [k EXCEPT !.ret = SYSERR]
  ELSE IF k.semtab[sem].queue = -1 THEN [k EXCEPT !.ret = SYSERR]
  ELSE IF k.semtab[sem].count - 1 <= 0
  THEN [resched([enqueue_sem([k EXCEPT !.semtab[sem].count = @ - 1,
                                       !.proctab[k.currpid].pstate = PR_WAIT,
                                       !.proctab[k.currpid].pwait = sem],
                             sem, k.currpid)
                 EXCEPT !.pcall[k.currpid] = [op |-> "wait", arg |-> sem]])
        EXCEPT !.ret = NONE]
  ELSE [k EXCEPT !.semtab[sem].count = @ - 1, !.ret = OK]

wait(k, sem) ==
  IF sem < 0 \/ sem >= NSEM THEN [k EXCEPT !.ret = SYSERR]
  ELSE IF k.semtab[sem].queue = -1 THEN [k EXCEPT !.ret = SYSERR]
  ELSE IF k.semtab[sem].count - 1 < 0
  THEN [resched([enqueue_sem([k EXCEPT !.semtab[sem].count = @ - 1,
                                       !.proctab[k.currpid].pstate = PR_WAIT,
                                       !.proctab[k.currpid].pwait = sem],
                             sem, k.currpid)
                 EXCEPT !.pcall[k.currpid] = [op |-> "wait", arg |-> sem]])
        EXCEPT !.ret = NONE]
  ELSE [k EXCEPT !.semtab[sem].count = @ - 1, !.ret = OK]

(* signal after dequeue_sem, which left the pid in d.aux. *)
signal_wake(d) ==
  IF d.aux # -1
  THEN [resched([d EXCEPT !.proctab[d.aux].pstate = PR_READY,
                          !.proctab[d.aux].pwait = -1])
        EXCEPT !.ret = OK, !.aux = d.aux]
  ELSE [d EXCEPT !.ret = OK, !.aux = -1]

(* signal: the pid made READY (or -1) is left in aux. *)
signal(k, sem) ==
  IF sem < 0 \/ sem >= NSEM THEN [k EXCEPT !.ret = SYSERR, !.aux = -1]
  ELSE IF k.semtab[sem].queue = -1 THEN [k EXCEPT !.ret = SYSERR, !.aux = -1]
  ELSE IF k.semtab[sem].count + 1 <= 0
  THEN signal_wake(dequeue_sem([k EXCEPT !.semtab[sem].count = @ + 1], sem))
  ELSE [k EXCEPT !.semtab[sem].count = @ + 1, !.ret = OK, !.aux = -1]

(* semreset: the wake loop is that of semdelete; the slot stays allocated. *)
semreset(k, sem, count) ==
  IF sem < 0 \/ sem >= NSEM \/ count < 0 THEN [k EXCEPT !.ret = SYSERR]
  ELSE IF k.semtab[sem].queue = -1 THEN [k EXCEPT !.ret = SYSERR]
  ELSE [resched([wake_all(k, sem) EXCEPT !.semtab[sem].count = count])
        EXCEPT !.ret = OK]

(* The loop of signaln: n increments, each followed by a dequeue while the *)
(* count is not positive.                                                  *)
RECURSIVE signaln_loop(_, _, _)

signaln_wake(d, sem, n) ==
  signaln_loop(IF d.aux # -1
               THEN [d EXCEPT !.proctab[d.aux].pstate = PR_READY,
                              !.proctab[d.aux].pwait = -1]
               ELSE d,
               sem, n - 1)

signaln_loop(k, sem, n) ==
  IF n > 0
  THEN IF k.semtab[sem].count + 1 <= 0
       THEN signaln_wake(dequeue_sem([k EXCEPT !.semtab[sem].count = @ + 1], sem), sem, n)
       ELSE signaln_loop([k EXCEPT !.semtab[sem].count = @ + 1], sem, n - 1)
  ELSE k

signaln(k, sem, n) ==
  IF sem < 0 \/ sem >= NSEM \/ n <= 0 THEN [k EXCEPT !.ret = SYSERR]
  ELSE IF k.semtab[sem].queue = -1 THEN [k EXCEPT !.ret = SYSERR]
  ELSE [resched(signaln_loop(k, sem, n)) EXCEPT !.ret = OK]

(* n calls of signal in a row. *)
RECURSIVE signal_times(_, _, _)
signal_times(k, sem, n) ==
  IF n = 0 THEN k ELSE signal_times(signal(k, sem), sem, n - 1)

(* trywait with the test of the count off by one: a count of 0 is taken. *)
trywait_takes_zero(k, sem) ==
  IF sem < 0 \/ sem >= NSEM THEN [k EXCEPT !.ret = SYSERR]
  ELSE IF k.semtab[sem].queue = -1 THEN [k EXCEPT !.ret = SYSERR]
  ELSE IF k.semtab[sem].count >= 0 THEN [k EXCEPT !.semtab[sem].count = @ - 1, !.ret = OK]
  ELSE [k EXCEPT !.ret = SYSERR]

(* trywait: the would-block result is SYSERR as well. *)
trywait(k, sem) ==
  IF sem < 0 \/ sem >= NSEM THEN [k EXCEPT !.ret = SYSERR]
  ELSE IF k.semtab[sem].queue = -1 THEN [k EXCEPT !.ret = SYSERR]
  ELSE IF k.semtab[sem].count > 0 THEN [k EXCEPT !.semtab[sem].count = @ - 1, !.ret = OK]
  ELSE [k EXCEPT !.ret = SYSERR]

(* timedwait: the timeout is stored in pargs and read by nothing. *)
timedwait(k, sem, timeout) ==
  IF sem < 0 \/ sem >= NSEM THEN [k EXCEPT !.ret = SYSERR]
  ELSE IF k.semtab[sem].queue = -1 THEN [k EXCEPT !.ret = SYSERR]
  ELSE IF k.semtab[sem].count > 0 THEN [k EXCEPT !.semtab[sem].count = @ - 1, !.ret = OK]
  ELSE [resched([enqueue_sem([k EXCEPT !.semtab[sem].count = @ - 1,
                                       !.proctab[k.currpid].pstate = PR_WAIT,
                                       !.proctab[k.currpid].pwait = sem,
                                       !.proctab[k.currpid].pargs = timeout],
                             sem, k.currpid)
                 EXCEPT !.pcall[k.currpid] = [op |-> "timedwait", arg |-> sem]])
        EXCEPT !.ret = NONE]

(***************************************************************************)
(* process.c and chprio of kernel.c                                        *)
(***************************************************************************)
(* The i-th pid that allocate_pid tries, from the rotating hint. *)
hint_pid(k, i) == (k.next_pid_hint + i) % NPROC

RECURSIVE allocate_scan(_, _)
allocate_scan(k, i) ==
  IF i >= NPROC THEN SYSERR
  ELSE IF /\ hint_pid(k, i) # 0
          /\ ~k.pid_in_use[hint_pid(k, i)]
          /\ k.proctab[hint_pid(k, i)].pstate = PR_FREE
  THEN hint_pid(k, i)
  ELSE allocate_scan(k, i + 1)

allocate_take(k, pid) ==
  IF pid = SYSERR THEN [k EXCEPT !.aux = SYSERR]
  ELSE [k EXCEPT !.pid_in_use[pid] = TRUE,
                 !.next_pid_hint = (pid + 1) % NPROC,
                 !.aux = pid]

(* allocate_pid: the pid (or SYSERR) is left in aux. *)
allocate_pid(k) == allocate_take(k, allocate_scan(k, 0))

release_pid(k, pid) ==
  IF pid > 0 /\ pid < NPROC THEN [k EXCEPT !.pid_in_use[pid] = FALSE] ELSE k

(* create after getstk, which left the top of the stack in g.aux. *)
create_entry(g, pid, prio, ssize) ==
  IF g.aux = SYSERR THEN [release_pid(g, pid) EXCEPT !.ret = SYSERR]
  ELSE [g EXCEPT !.proctab[pid] =
                   [pstate |-> PR_SUSP, pprio |-> prio, pwait |-> -1,
                    pmsg |-> 0, phasmsg |-> FALSE, pargs |-> 0,
                    pstkbase |-> g.aux, pstklen |-> ssize],
                 !.pcall[pid] = NoCall,
                 !.ret = pid]

(* create after allocate_pid, which left the pid in a.aux. *)
create_stack(a, prio, ssize) ==
  IF a.aux = SYSERR THEN [a EXCEPT !.ret = SYSERR]
  ELSE create_entry(getstk(a, ssize), a.aux, prio, ssize)

(* create with a non-null entry point and no arguments, and a stack size   *)
(* that is a multiple of the word.  The new process starts at its entry    *)
(* point.                                                                  *)
create(k, priority, ssize) ==
  create_stack(allocate_pid(k),
               IF priority < PRIORITY_MIN THEN PRIORITY_MIN
               ELSE IF priority > PRIORITY_MAX THEN PRIORITY_MAX
               ELSE priority,
               IF ssize < MINSTK THEN MINSTK ELSE ssize)

(* kill from "Clear process state".  kill frees the stack of pid, so       *)
(* whatever call pid was suspended in is abandoned.                        *)
kill_free(k1, pid) ==
  release_pid([k1 EXCEPT !.proctab[pid].pstate = PR_FREE,
                         !.proctab[pid].pprio = PRIORITY_DEFAULT,
                         !.proctab[pid].pwait = -1,
                         !.proctab[pid].pmsg = 0,
                         !.proctab[pid].phasmsg = FALSE,
                         !.pcall[pid] = NoCall],
              pid)

(* The end of kill: the caller that killed itself gives up the processor. *)
kill_resched(k3, pid, caller) == IF pid = caller THEN resched(k3) ELSE k3

(* kill's release of the stack. *)
kill_stack(k, pid) ==
  IF k.proctab[pid].pstkbase # 0
  THEN [freestk(k, k.proctab[pid].pstkbase, k.proctab[pid].pstklen)
        EXCEPT !.proctab[pid].pstkbase = 0, !.proctab[pid].pstklen = 0]
  ELSE k

(* kill's count of the semaphore that pwait names. *)
kill_count(k, pid) ==
  IF /\ k.proctab[pid].pstate = PR_WAIT
     /\ k.proctab[pid].pwait >= 0
     /\ k.proctab[pid].pwait < NSEM
  THEN [k EXCEPT !.semtab[k.proctab[pid].pwait].count = @ + 1]
  ELSE k

(* kill without the test for the null process. *)
kill_any_pid(k, pid) ==
  IF pid < 0 \/ pid >= NPROC THEN k
  ELSE IF k.proctab[pid].pstate = PR_FREE THEN k
  ELSE kill_resched(kill_free(kill_count(kill_stack(k, pid), pid), pid), pid, k.currpid)

kill(k, pid) ==
  IF pid < 0 \/ pid >= NPROC THEN k
  ELSE IF pid = 0 THEN k
  ELSE IF k.proctab[pid].pstate = PR_FREE THEN k
  ELSE kill_resched(kill_free(kill_count(kill_stack(k, pid), pid), pid), pid, k.currpid)

(* suspend marking its target SUSPENDED before it has tested the state. *)
suspend_marks_before_check(k, pid) ==
  IF pid < 0 \/ pid >= NPROC THEN [k EXCEPT !.ret = SYSERR]
  ELSE IF pid = 0 THEN [k EXCEPT !.ret = SYSERR]
  ELSE IF k.proctab[pid].pstate # PR_READY /\ k.proctab[pid].pstate # PR_CURR
  THEN [k EXCEPT !.proctab[pid].pstate = PR_SUSP, !.ret = SYSERR]
  ELSE IF k.proctab[pid].pstate = PR_CURR
  THEN [resched([k EXCEPT !.proctab[pid].pstate = PR_SUSP])
        EXCEPT !.ret = k.proctab[pid].pprio]
  ELSE [k EXCEPT !.proctab[pid].pstate = PR_SUSP, !.ret = k.proctab[pid].pprio]

suspend(k, pid) ==
  IF pid < 0 \/ pid >= NPROC THEN [k EXCEPT !.ret = SYSERR]
  ELSE IF pid = 0 THEN [k EXCEPT !.ret = SYSERR]
  ELSE IF k.proctab[pid].pstate # PR_READY /\ k.proctab[pid].pstate # PR_CURR
  THEN [k EXCEPT !.ret = SYSERR]
  ELSE IF k.proctab[pid].pstate = PR_CURR
  THEN [resched([k EXCEPT !.proctab[pid].pstate = PR_SUSP])
        EXCEPT !.ret = k.proctab[pid].pprio]
  ELSE [k EXCEPT !.proctab[pid].pstate = PR_SUSP, !.ret = k.proctab[pid].pprio]

resume(k, pid) ==
  IF pid < 0 \/ pid >= NPROC THEN [k EXCEPT !.ret = SYSERR]
  ELSE IF k.proctab[pid].pstate # PR_SUSP THEN [k EXCEPT !.ret = SYSERR]
  ELSE [ready(k, pid, TRUE) EXCEPT !.ret = k.proctab[pid].pprio]

yield(k) == resched(k)

(* chprio's reinsertion of a READY process, after remove_from_ready. *)
chprio_requeue(r, pid) == IF r.hung THEN r ELSE enqueue_ready(r, pid)

(* The end of chprio: resched when the priority of the caller or of a      *)
(* READY process changed.                                                  *)
chprio_resched(k2, pid, oldprio, caller) ==
  IF pid = caller \/ k2.proctab[pid].pstate = PR_READY
  THEN [resched(k2) EXCEPT !.ret = oldprio]
  ELSE [k2 EXCEPT !.ret = oldprio]

(* chprio once the new priority is stored. *)
chprio_set(k1, pid, oldprio, caller) ==
  chprio_resched(IF k1.proctab[pid].pstate = PR_READY
                 THEN chprio_requeue(remove_from_ready(k1, pid), pid)
                 ELSE k1,
                 pid, oldprio, caller)

chprio(k, pid, newprio) ==
  IF pid < 0 \/ pid >= NPROC THEN [k EXCEPT !.ret = SYSERR]
  ELSE IF newprio < PRIORITY_MIN \/ newprio > PRIORITY_MAX THEN [k EXCEPT !.ret = SYSERR]
  ELSE IF k.proctab[pid].pstate = PR_FREE THEN [k EXCEPT !.ret = SYSERR]
  ELSE chprio_set([k EXCEPT !.proctab[pid].pprio = newprio],
                  pid, k.proctab[pid].pprio, k.currpid)

(***************************************************************************)
(* process.c and message.c: the one-slot messages.  send, receive and      *)
(* recvclr are defined by both files with the same effect on the slot;     *)
(* process.c calls ready(pid, true) and message.c calls ready(pid), so rf  *)
(* is the value that ready's resched_flag receives.                        *)
(***************************************************************************)
(* send storing its message over an unread one. *)
send_overwrites(k, pid, msg, rf) ==
  IF pid < 0 \/ pid >= NPROC THEN [k EXCEPT !.ret = SYSERR]
  ELSE IF k.proctab[pid].pstate = PR_FREE THEN [k EXCEPT !.ret = SYSERR]
  ELSE IF k.proctab[pid].phasmsg
  THEN [k EXCEPT !.proctab[pid].pmsg = msg, !.ret = SYSERR]
  ELSE IF k.proctab[pid].pstate = PR_RECV
  THEN [ready([k EXCEPT !.proctab[pid].pmsg = msg, !.proctab[pid].phasmsg = TRUE],
              pid, rf)
        EXCEPT !.ret = OK]
  ELSE [k EXCEPT !.proctab[pid].pmsg = msg, !.proctab[pid].phasmsg = TRUE, !.ret = OK]

send(k, pid, msg, rf) ==
  IF pid < 0 \/ pid >= NPROC THEN [k EXCEPT !.ret = SYSERR]
  ELSE IF k.proctab[pid].pstate = PR_FREE THEN [k EXCEPT !.ret = SYSERR]
  ELSE IF k.proctab[pid].phasmsg THEN [k EXCEPT !.ret = SYSERR]
  ELSE IF k.proctab[pid].pstate = PR_RECV
  THEN [ready([k EXCEPT !.proctab[pid].pmsg = msg, !.proctab[pid].phasmsg = TRUE],
              pid, rf)
        EXCEPT !.ret = OK]
  ELSE [k EXCEPT !.proctab[pid].pmsg = msg, !.proctab[pid].phasmsg = TRUE, !.ret = OK]

(* receive: the message is left in ret; a caller that finds its slot empty *)
(* blocks, and tests the slot again each time it is switched in.           *)
receive(k) ==
  IF k.proctab[k.currpid].phasmsg
  THEN [k EXCEPT !.proctab[k.currpid].phasmsg = FALSE,
                 !.ret = k.proctab[k.currpid].pmsg]
  ELSE [resched([k EXCEPT !.proctab[k.currpid].pstate = PR_RECV,
                          !.pcall[k.currpid] = [op |-> "receive", arg |-> NONE]])
        EXCEPT !.ret = NONE]

(* recvclr: empty is what the definition returns for an empty slot, 0 in   *)
(* process.c and OK in message.c.                                          *)
recvclr(k, empty) ==
  IF k.proctab[k.currpid].phasmsg
  THEN [k EXCEPT !.proctab[k.currpid].phasmsg = FALSE,
                 !.ret = k.proctab[k.currpid].pmsg]
  ELSE [k EXCEPT !.ret = empty]

(***************************************************************************)
(* The primitives that report an error by returning SYSERR, called by name *)
(* with arguments a and b.  unsleep is the definition of clock.c and       *)
(* process_unsleep that of process.c.  ready's resched_flag plays no part  *)
(* in a send that fails.                                                   *)
(***************************************************************************)
SyserrOps ==
  {"suspend", "resume", "unsleep", "process_unsleep", "chprio", "send", "semcreate",
   "semdelete", "semreset", "signal", "signaln", "trywait"}

primitive(k, op, a, b) ==
  IF op = "suspend" THEN suspend(k, a)
  ELSE IF op = "resume" THEN resume(k, a)
  ELSE IF op = "unsleep" THEN unsleep(k, a)
  ELSE IF op = "process_unsleep" THEN process_unsleep(k, a)
  ELSE IF op = "chprio" THEN chprio(k, a, b)
  ELSE IF op = "send" THEN send(k, a, b, TRUE)
  ELSE IF op = "semcreate" THEN semcreate(k, a)
  ELSE IF op = "semdelete" THEN semdelete(k, a)
  ELSE IF op = "semreset" THEN semreset(k, a, b)
  ELSE IF op = "signal" THEN signal(k, a)
  ELSE IF op = "signaln" THEN signaln(k, a, b)
  ELSE trywait(k, a)

(***************************************************************************)
(* The initial state: the module initialisers, then main.c's boot, which   *)
(* creates and resumes the init and shell processes as the null process.   *)
(***************************************************************************)
K0 ==
  [proctab |-> <<>>, currpid |-> 0, semtab |-> <<>>, sem_queues |-> <<>>,
   semfree |-> 0, readylist_head |-> -1, readylist_tail |-> -1,
   pid_in_use |-> [i \in Pids |-> FALSE], next_pid_hint |-> 1,
   queuetab |-> <<>>, qfree |-> EMPTY, sleepq |-> -1, slnempty |-> 0,
   clkticks |-> 0, clkdefer |-> 0, preempt_count |-> 0, time_quantum |-> QUANTUM,
   stkpool |-> [mhead |-> <<>>, mfree |-> 0, mtotal |-> 0],
   pcall |-> [i \in Pids |-> NoCall], hung |-> FALSE, woke |-> NoWoke,
   ret |-> OK, aux |-> NONE]

(* The priorities 80 and 50 of main.c on the scale PRIORITY_MIN ..         *)
(* PRIORITY_MAX of the model.                                              *)
INIT_PRIO == PRIORITY_MAX
SHELL_PRIO == PRIORITY_DEFAULT
(* The stack sizes 4096 and 8192 of main.c in units of the model. *)
INIT_STK == 1
SHELL_STK == 2

(* create_system_processes: create, then resume unless create failed. *)
resume_created(c) == IF c.ret # SYSERR THEN resume(c, c.ret) ELSE c

create_system_processes(k) ==
  [resume_created(create(resume_created(create(k, INIT_PRIO, INIT_STK)),
                         SHELL_PRIO, SHELL_STK))
   EXCEPT !.ret = OK, !.aux = NONE, !.woke = NoWoke]

InitK == create_system_processes(clkinit(init_queues(init_semaphores(kernel_init(K0)))))

Init ==
  /\ proctab = InitK.proctab
  /\ currpid = InitK.currpid
  /\ semtab = InitK.semtab
  /\ sem_queues = InitK.sem_queues
  /\ semfree = InitK.semfree
  /\ readylist_head = InitK.readylist_head
  /\ readylist_tail = InitK.readylist_tail
  /\ pid_in_use = InitK.pid_in_use
  /\ next_pid_hint = InitK.next_pid_hint
  /\ queuetab = InitK.queuetab
  /\ qfree = InitK.qfree
  /\ sleepq = InitK.sleepq
  /\ slnempty = InitK.slnempty
  /\ clkticks = InitK.clkticks
  /\ clkdefer = InitK.clkdefer
  /\ preempt_count = InitK.preempt_count
  /\ time_quantum = InitK.time_quantum
  /\ stkpool = InitK.stkpool
  /\ pcall = InitK.pcall
  /\ hung = FALSE
  /\ woke = [pid |-> NONE, op |-> "none", sem |-> NONE, ret |-> NONE,
             del |-> FALSE, rst |-> FALSE]
  /\ waitq = [s \in Sems |-> <<>>]
  /\ semdel = [p \in Pids |-> FALSE]
  /\ semrst = [p \in Pids |-> FALSE]
  /\ readied = {p \in Pids : InitK.proctab[p].pstate = PR_READY}
  /\ wakeat = [p \in Pids |-> NONE]
  /\ steps = 0
  /\ interrupt_state = 1
  /\ int_state_stack = [n \in 0 .. (INT_STACK_SIZE - 1) |-> 0]
  /\ int_stack_ptr = 0
  /\ masks = <<>>
  /\ outer = NONE
  /\ semexp = [s \in Sems |-> NONE]
  /\ clkcalls = 0

(***************************************************************************)
(* History variables                                                       *)
(***************************************************************************)
Without(q, p) == SelectSeq(q, LAMBDA x : x # p)
Members(q) == {q[i] : i \in 1 .. Len(q)}

(* The blocked callers of wait, per semaphore, after primitive op. *)
(* q without its first n elements. *)
DropFirst(q, n) == IF n >= Len(q) THEN <<>> ELSE SubSeq(q, n + 1, Len(q))

NextWaitq(k2, op, a) ==
  LET w1 == IF op \in {"wait", "timedwait"} /\ k2.ret = NONE
            THEN [waitq EXCEPT ![a] = Append(@, currpid)]
            ELSE IF op = "signaln"
            THEN [waitq EXCEPT ![a] = DropFirst(@, k2.semtab[a].count - semtab[a].count)]
            ELSE IF op = "semreset"
            THEN [waitq EXCEPT ![a] = <<>>]
            ELSE IF op = "signal" /\ k2.aux \in Pids
            THEN [waitq EXCEPT ![a] = Without(@, k2.aux)]
            ELSE IF op = "kill"
            THEN [s \in Sems |-> Without(waitq[s], a)]
            ELSE IF op = "semdelete" /\ k2.ret = OK
            THEN [waitq EXCEPT ![a] = <<>>]
            ELSE waitq
  IN IF k2.woke.pid \in Pids
     THEN [s \in Sems |-> Without(w1[s], k2.woke.pid)]
     ELSE w1

DeletedNow(k2, op, a) ==
  [p \in Pids |->
     IF op = "semdelete" /\ k2.ret = OK /\ p \in Members(waitq[a]) THEN TRUE
     ELSE IF op = "kill" /\ p = a THEN FALSE
     ELSE semdel[p]]

ResetNow(k2, op, a) ==
  [p \in Pids |->
     IF op = "semreset" /\ k2.ret = OK /\ p \in Members(waitq[a]) THEN TRUE
     ELSE IF op = "kill" /\ p = a THEN FALSE
     ELSE semrst[p]]

(* The processes that a wake-up has made READY: blocked before the step or *)
(* woken earlier, and READY after it.                                      *)
Readied(k2) ==
  {p \in Pids : /\ k2.proctab[p].pstate = PR_READY
                /\ p \in readied \/ proctab[p].pstate \notin {PR_READY, PR_CURR}}

(* The count that the calls made on each semaphore since its semcreate    *)
(* add up to: the initial count, plus one per signal, n per signaln and    *)
(* one per kill of a waiter, less one per wait, timedwait and trywait that *)
(* took a unit.  NONE for a free slot and for a semaphore that was reset.  *)
Expected(k2, op, a) ==
  [s \in Sems |->
     IF op = "semcreate" /\ k2.ret = s THEN a
     ELSE IF op \in {"semdelete", "semreset"} /\ a = s /\ k2.ret = OK THEN NONE
     ELSE IF semexp[s] = NONE THEN NONE
     ELSE IF op = "signal" /\ a = s THEN semexp[s] + 1
     ELSE IF op = "signaln" /\ a = s THEN semexp[s] + k2.aux
     ELSE IF op = "kill" /\ a \in Members(waitq[s]) THEN semexp[s] + 1
     ELSE IF op \in {"wait", "timedwait"} /\ a = s THEN semexp[s] - 1
     ELSE IF op = "trywait" /\ a = s /\ k2.woke.ret = OK THEN semexp[s] - 1
     ELSE semexp[s]]

(* k2 with the outcome of a call that returned to its caller at once put   *)
(* on record, unless a blocked call returned in the same step.             *)
Returns(k2, pid, op, sem, ret) ==
  IF k2.woke.pid # NONE THEN k2
  ELSE [k2 EXCEPT !.woke = [pid |-> pid, op |-> op, sem |-> sem, ret |-> ret]]

(* Cap of the counters that the primitives can drive without limit. *)
Bounded(k2) ==
  \A s \in Sems : k2.semtab[s].count >= -MaxWaiters /\ k2.semtab[s].count <= MaxCount + 1

(* One step: primitive op, called by the current process with argument a,  *)
(* takes the kernel from K to k2.  A call that fails its argument checks  *)
(* returns SYSERR before it has changed anything: it is no step.           *)
Update(k2, op, a) ==
  /\ k2.ret # SYSERR \/ k2.hung
  /\ Bounded(k2)
  /\ proctab' = k2.proctab
  /\ currpid' = k2.currpid
  /\ semtab' = k2.semtab
  /\ sem_queues' = k2.sem_queues
  /\ semfree' = k2.semfree
  /\ readylist_head' = k2.readylist_head
  /\ readylist_tail' = k2.readylist_tail
  /\ pid_in_use' = k2.pid_in_use
  /\ next_pid_hint' = k2.next_pid_hint
  /\ queuetab' = k2.queuetab
  /\ qfree' = k2.qfree
  /\ sleepq' = k2.sleepq
  /\ slnempty' = k2.slnempty
  /\ clkticks' = k2.clkticks
  /\ clkdefer' = k2.clkdefer
  /\ preempt_count' = k2.preempt_count
  /\ time_quantum' = k2.time_quantum
  /\ stkpool' = k2.stkpool
  /\ pcall' = k2.pcall
  /\ hung' = k2.hung
  /\ woke' = [pid |-> k2.woke.pid, op |-> k2.woke.op, sem |-> k2.woke.sem,
              ret |-> k2.woke.ret,
              del |-> IF k2.woke.pid \in Pids
                      THEN DeletedNow(k2, op, a)[k2.woke.pid] ELSE FALSE,
              rst |-> IF k2.woke.pid \in Pids
                      THEN ResetNow(k2, op, a)[k2.woke.pid] ELSE FALSE]
  /\ waitq' = NextWaitq(k2, op, a)
  /\ semdel' = [p \in Pids |->
                  IF k2.woke.pid = p \/ (op \in {"wait", "timedwait"} /\ p = currpid)
                  THEN FALSE
                  ELSE DeletedNow(k2, op, a)[p]]
  /\ semrst' = [p \in Pids |->
                  IF k2.woke.pid = p \/ (op \in {"wait", "timedwait"} /\ p = currpid)
                  THEN FALSE
                  ELSE ResetNow(k2, op, a)[p]]
  /\ readied' = Readied(k2)
  /\ wakeat' = [p \in Pids |->
                  IF k2.proctab[p].pstate # PR_SLEEP THEN NONE
                  ELSE IF op = "sleep" /\ p = currpid THEN clkticks + a
                  ELSE wakeat[p]]
  /\ interrupt_state' = section_of(I, op).interrupt_state
  /\ int_state_stack' = section_of(I, op).int_state_stack
  /\ int_stack_ptr' = section_of(I, op).int_stack_ptr
  /\ semexp' = Expected(k2, op, a)
  /\ clkcalls' = IF op = "clkhandler" /\ clkcalls < MaxTicks THEN clkcalls + 1 ELSE clkcalls
  /\ UNCHANGED <<masks, outer>>

(* The result of the primitive is computed once and then stored. *)
Apply(k2, op, a) == \E r \in {k2} : Update(r, op, a)

Commit(k2, op, a) ==
  /\ steps < MaxSteps
  /\ steps' = steps + 1
  /\ Apply(k2, op, a)

(***************************************************************************)
(* Actions: the primitives as called by the current process, and the clock *)
(* interrupt.  The null process only idles, so it never calls a primitive  *)
(* that blocks its caller.                                                 *)
(***************************************************************************)
Create(priority, ssize) ==
  ~hung /\ Commit(create(K, priority, ssize), "create", priority)

Kill(pid) ==
  /\ ~hung
  /\ pid # 0
  /\ proctab[pid].pstate # PR_FREE
  /\ Commit([kill(K, pid) EXCEPT !.ret = OK], "kill", pid)

Resume(pid) == ~hung /\ Commit(resume(K, pid), "resume", pid)

Suspend(pid) == ~hung /\ Commit(suspend(K, pid), "suspend", pid)

Chprio(pid, newprio) ==
  ~hung /\ Commit(chprio(K, pid, newprio), "chprio", pid)

Yield == ~hung /\ Commit([yield(K) EXCEPT !.ret = OK], "yield", NONE)

Semcreate(count) == ~hung /\ Commit(semcreate(K, count), "semcreate", count)

Semdelete(sem) == ~hung /\ Commit(semdelete(K, sem), "semdelete", sem)

Wait(sem) ==
  /\ ~hung
  /\ currpid # 0
  /\ Commit(wait(K, sem), "wait", sem)

Signal(sem) ==
  /\ ~hung
  /\ Commit(signal(K, sem), "signal", sem)

Sleep(delay) ==
  /\ ~hung
  /\ currpid # 0
  /\ Commit(sleep(K, delay), "sleep", delay)

Clkhandler(rf) ==
  /\ ~hung
  /\ clkticks < MaxTicks
  /\ Commit([clkhandler(K, rf) EXCEPT !.ret = OK], "clkhandler", NONE)

(* The number of signals asked for is left in aux. *)
Signaln(sem, n) ==
  ~hung /\ Commit([signaln(K, sem, n) EXCEPT !.aux = n], "signaln", sem)

Semreset(sem, count) == ~hung /\ Commit(semreset(K, sem, count), "semreset", sem)

(* trywait answers SYSERR when the caller would block; that call is a step *)
(* too, and its answer is put on record.                                   *)
Trywait(sem) ==
  /\ ~hung
  /\ semtab[sem].queue # -1
  /\ Commit(Returns([trywait(K, sem) EXCEPT !.ret = OK],
                    currpid, "trywait", sem, trywait(K, sem).ret),
            "trywait", sem)

Timedwait(sem, timeout) ==
  /\ ~hung
  /\ currpid # 0
  /\ Commit(timedwait(K, sem, timeout), "timedwait", sem)

(* A send that is refused returns SYSERR; that call is a step too.  The    *)
(* record of a send keeps the target in the place of the semaphore.        *)
Send(pid, msg, rf) ==
  /\ ~hung
  /\ proctab[pid].pstate # PR_FREE
  /\ Commit(Returns([send(K, pid, msg, rf) EXCEPT !.ret = OK],
                    currpid, "send", pid, send(K, pid, msg, rf).ret),
            "send", pid)

Receive ==
  /\ ~hung
  /\ currpid # 0
  /\ Commit(IF proctab[currpid].phasmsg
            THEN Returns(receive(K), currpid, "receive", NONE, receive(K).ret)
            ELSE receive(K),
            "receive", NONE)

Recvclr(empty) ==
  /\ ~hung
  /\ Commit(Returns([recvclr(K, empty) EXCEPT !.ret = OK],
                    currpid, "recvclr", NONE, recvclr(K, empty).ret),
            "recvclr", NONE)

(* A critical section opened and closed by the running code itself, as    *)
(* spin_lock_irqsave and spin_unlock_irqrestore do; the primitives called  *)
(* in between are nested pairs.  main.c calls enable once the system       *)
(* processes are created.                                                  *)
Disable ==
  /\ Len(masks) < MaxNest
  /\ interrupt_state' = disable(I).interrupt_state
  /\ int_state_stack' = disable(I).int_state_stack
  /\ int_stack_ptr' = disable(I).int_stack_ptr
  /\ masks' = Append(masks, disable(I).ret)
  /\ outer' = IF masks = <<>> THEN interrupt_state ELSE outer
  /\ UNCHANGED kvars

Restore ==
  /\ masks # <<>>
  /\ interrupt_state' = restore(I, masks[Len(masks)]).interrupt_state
  /\ int_state_stack' = restore(I, masks[Len(masks)]).int_state_stack
  /\ int_stack_ptr' = restore(I, masks[Len(masks)]).int_stack_ptr
  /\ masks' = SubSeq(masks, 1, Len(masks) - 1)
  /\ UNCHANGED <<outer, kvars>>

Enable ==
  /\ masks = <<>>
  /\ interrupt_state' = enable(I).interrupt_state
  /\ int_state_stack' = enable(I).int_state_stack
  /\ int_stack_ptr' = enable(I).int_stack_ptr
  /\ UNCHANGED <<masks, outer, kvars>>

(* A call that returns SYSERR to its caller.  The arguments are also taken *)
(* outside the tables.                                                     *)
Refused(op, a, b) ==
  /\ ~hung
  /\ primitive(K, op, a, b).ret = SYSERR
  /\ ~primitive(K, op, a, b).hung
  /\ Commit(Returns([primitive(K, op, a, b) EXCEPT !.ret = OK], currpid, op, a, SYSERR),
            "refused", a)

(* The operations of queue.c, called on the queues that newqueue made. *)
Newqueue == ~hung /\ Commit(newqueue(K), "newqueue", NONE)

Enqueue(pid, q) == ~hung /\ Commit(enqueue(K, pid, q), "enqueue", pid)

Insert(pid, q, key) == ~hung /\ Commit(insert(K, pid, q, key), "insert", pid)

Insertd(pid, q, key) == ~hung /\ Commit(insertd(K, pid, q, key), "insertd", pid)

Dequeue(q) == ~hung /\ Commit(dequeue(K, q), "dequeue", q)

Getitem(pid, q) == ~hung /\ Commit(getitem(K, pid, q), "getitem", pid)

Freequeue(q) == ~hung /\ Commit(freequeue(K, q), "freequeue", q)

(* unsleep is defined by clock.c and again by process.c; a call reaches    *)
(* either definition.                                                      *)
Unsleep(pid) ==
  /\ ~hung
  /\ \/ Commit(unsleep(K, pid), "unsleep", pid)
     \/ Commit(process_unsleep(K, pid), "unsleep", pid)

Yield_quantum == ~hung /\ Commit([yield_quantum(K) EXCEPT !.ret = OK], "yield_quantum", NONE)

Defer_clock == ~hung /\ clkdefer = 0 /\ Commit(defer_clock(K), "defer_clock", NONE)

Undefer_clock(rf) ==
  /\ ~hung
  /\ clkdefer > 0
  /\ Commit(Returns([undefer_clock(K, rf) EXCEPT !.ret = OK],
                    currpid, "undefer_clock", NONE, clkdefer - 1),
            "undefer_clock", NONE)

(* A clock interrupt that is not counted against MaxSteps, for behaviours  *)
(* in which the clock never stops.  clkticks, which no code modelled here  *)
(* reads, stops counting at MaxTicks.                                      *)
Tick(rf) ==
  /\ ~hung
  /\ UNCHANGED steps
  /\ Apply([clkhandler(K, rf) EXCEPT !.ret = OK,
                                     !.clkticks = IF @ > MaxTicks THEN MaxTicks ELSE @],
           "clkhandler", NONE)

Next ==
  \/ \E priority \in Prios : Create(priority, INIT_STK)
  \/ \E pid \in Pids : Kill(pid)
  \/ \E pid \in Pids : Resume(pid)
  \/ \E pid \in Pids : Suspend(pid)
  \/ \E pid \in Pids, newprio \in Prios : Chprio(pid, newprio)
  \/ Yield
  \/ \E count \in 0 .. MaxCount : Semcreate(count)
  \/ \E sem \in Sems : Semdelete(sem)
  \/ \E sem \in Sems : Wait(sem)
  \/ \E sem \in Sems : Signal(sem)
  \/ \E delay \in 1 .. MaxDelay : Sleep(delay)
  \/ \E rf \in BOOLEAN : Clkhandler(rf)

Spec == Init /\ [][Next]_vars

(* The process and semaphore primitives alone: no process sleeps and the   *)
(* clock does not tick.                                                    *)
NextSem ==
  \/ \E priority \in Prios : Create(priority, INIT_STK)
  \/ \E pid \in Pids : Kill(pid)
  \/ \E pid \in Pids : Resume(pid)
  \/ \E pid \in Pids : Suspend(pid)
  \/ \E pid \in Pids, newprio \in Prios : Chprio(pid, newprio)
  \/ Yield
  \/ \E count \in 0 .. MaxCount : Semcreate(count)
  \/ \E sem \in Sems : Semdelete(sem)
  \/ \E sem \in Sems : Wait(sem)
  \/ \E sem \in Sems : Signal(sem)

SpecSem == Init /\ [][NextSem]_vars

(* The semaphore primitives with signaln, semreset, trywait and timedwait. *)
NextSemX ==
  \/ \E pid \in Pids : Kill(pid)
  \/ \E pid \in Pids : Resume(pid)
  \/ \E pid \in Pids : Suspend(pid)
  \/ \E pid \in Pids, newprio \in Prios : Chprio(pid, newprio)
  \/ \E count \in 0 .. MaxCount : Semcreate(count)
  \/ \E sem \in Sems : Semdelete(sem)
  \/ \E sem \in Sems : Wait(sem)
  \/ \E sem \in Sems : Signal(sem)
  \/ \E sem \in Sems, n \in 1 .. MaxSignals : Signaln(sem, n)
  \/ \E sem \in Sems, count \in 0 .. MaxCount : Semreset(sem, count)
  \/ \E sem \in Sems : Trywait(sem)
  \/ \E sem \in Sems, timeout \in 1 .. MaxDelay : Timedwait(sem, timeout)

SpecSemX == Init /\ [][NextSemX]_vars

(* The one-slot messages. *)
NextMsg ==
  \/ \E pid \in Pids : Kill(pid)
  \/ \E pid \in Pids, newprio \in Prios : Chprio(pid, newprio)
  \/ \E pid \in Pids, msg \in 1 .. MaxMsg, rf \in BOOLEAN : Send(pid, msg, rf)
  \/ Receive
  \/ \E empty \in {0, OK} : Recvclr(empty)

SpecMsg == Init /\ [][NextMsg]_vars

(* Calls that fail, among calls that block, suspend, kill and send.  The   *)
(* first argument of a failing call ranges over the table indices and the  *)
(* values on either side of them; the second is a valid or a negative      *)
(* priority, count, number of signals or message.                          *)
NextErr ==
  \/ \E pid \in Pids : steps < MaxErrSteps /\ Kill(pid)
  \/ \E pid \in Pids : steps < MaxErrSteps /\ Suspend(pid)
  \/ \E pid \in Pids, newprio \in Prios : steps < MaxErrSteps /\ Chprio(pid, newprio)
  \/ \E count \in 0 .. MaxCount : steps < MaxErrSteps /\ Semcreate(count)
  \/ \E sem \in Sems : steps < MaxErrSteps /\ Wait(sem)
  \/ \E delay \in 1 .. MaxDelay : steps < MaxErrSteps /\ Sleep(delay)
  \/ \E pid \in Pids, msg \in 1 .. MaxMsg : steps < MaxErrSteps /\ Send(pid, msg, TRUE)
  \/ \E op \in SyserrOps, a \in -1 .. NPROC, b \in {-1, 1} :
       steps < MaxErrSteps /\ Refused(op, a, b)

SpecErr == Init /\ [][NextErr]_vars

(* Processes created with stacks of several sizes, and killed. *)
StackSizes == 1 .. MaxStack

NextStk ==
  \/ \E priority \in Prios, ssize \in StackSizes : Create(priority, ssize)
  \/ \E pid \in Pids : Kill(pid)
  \/ \E pid \in Pids : Resume(pid)
  \/ \E pid \in Pids : Suspend(pid)

SpecStk == Init /\ [][NextStk]_vars

(* Every primitive that changes the state of a process, and the clock. *)
NextSched ==
  \/ steps < MaxSchedSteps /\ \E priority \in Prios : Create(priority, INIT_STK)
  \/ steps < MaxSchedSteps /\ \E pid \in Pids : Kill(pid)
  \/ steps < MaxSchedSteps /\ \E pid \in Pids : Resume(pid)
  \/ steps < MaxSchedSteps /\ \E pid \in Pids : Suspend(pid)
  \/ steps < MaxSchedSteps /\ \E pid \in Pids, newprio \in Prios : Chprio(pid, newprio)
  \/ steps < MaxSchedSteps /\ \E count \in 0 .. MaxCount : Semcreate(count)
  \/ steps < MaxSchedSteps /\ \E sem \in Sems : Semdelete(sem)
  \/ steps < MaxSchedSteps /\ \E sem \in Sems : Wait(sem)
  \/ steps < MaxSchedSteps /\ \E sem \in Sems : Signal(sem)
  \/ steps < MaxSchedSteps /\ \E delay \in 1 .. MaxDelay : Sleep(delay)
  \/ steps < MaxSchedSteps
       /\ \E pid \in Pids, msg \in 1 .. MaxMsg, rf \in BOOLEAN : Send(pid, msg, rf)
  \/ steps < MaxSchedSteps /\ Receive
  \/ steps < MaxSchedSteps /\ \E rf \in BOOLEAN : Clkhandler(rf)

SpecSched == Init /\ [][NextSched]_vars

(* queue.c: queues made and filled until the pool of entries runs out. *)
Qents == 0 .. (NQENT - 1)

NextQueue ==
  \/ steps < MaxQueueSteps /\ Newqueue
  \/ steps < MaxQueueSteps /\ \E pid \in Pids, q \in Qents : Enqueue(pid, q)
  \/ steps < MaxQueueSteps
       /\ \E pid \in Pids, q \in Qents, key \in 1 .. MaxDelay : Insert(pid, q, key)
  \/ steps < MaxQueueSteps
       /\ \E pid \in Pids, q \in Qents, key \in 1 .. MaxDelay : Insertd(pid, q, key)
  \/ steps < MaxQueueSteps /\ \E q \in Qents : Dequeue(q)
  \/ steps < MaxQueueSteps /\ \E pid \in Pids, q \in Qents : Getitem(pid, q)
  \/ steps < MaxQueueSteps /\ \E q \in Qents : Freequeue(q)

SpecQueue == Init /\ [][NextQueue]_vars

(* The semaphore pool: creation and deletion, with the primitives that    *)
(* never block their caller on the semaphores in between.                  *)
NextPool ==
  \/ \E count \in 0 .. MaxCount : Semcreate(count)
  \/ \E sem \in Sems : Semdelete(sem)
  \/ \E sem \in Sems : Signal(sem)
  \/ \E sem \in Sems : Trywait(sem)

SpecPool == Init /\ [][NextPool]_vars

(* Critical sections of the running code around primitives that do not    *)
(* switch their caller out.                                                *)
NextIntr ==
  \/ Disable
  \/ Restore
  \/ Enable
  \/ \E count \in 0 .. MaxCount : Semcreate(count)
  \/ \E sem \in Sems : Signal(sem)
  \/ \E sem \in Sems : Trywait(sem)

SpecIntr == Init /\ [][NextIntr]_vars

(* The clock: sleeping, ticks, deferral and the time slice. *)
NextClk ==
  \/ \E pid \in Pids : Kill(pid)
  \/ \E pid \in Pids : Resume(pid)
  \/ \E pid \in Pids, newprio \in Prios : Chprio(pid, newprio)
  \/ \E delay \in 1 .. MaxDelay : Sleep(delay)
  \/ \E rf \in BOOLEAN : Clkhandler(rf)
  \/ \E pid \in Pids : Unsleep(pid)
  \/ Yield_quantum
  \/ Defer_clock
  \/ \E rf \in BOOLEAN : Undefer_clock(rf)

SpecClk == Init /\ [][NextClk]_vars

(* A few primitives, then a clock that ticks for ever: the hardware timer  *)
(* keeps interrupting, so the tick is weakly fair.                         *)
NextLive ==
  \/ \E pid \in Pids, newprio \in Prios : steps < MaxLiveSteps /\ Chprio(pid, newprio)
  \/ \E count \in 0 .. MaxCount : steps < MaxLiveSteps /\ Semcreate(count)
  \/ \E sem \in Sems : steps < MaxLiveSteps /\ Wait(sem)
  \/ \E sem \in Sems : steps < MaxLiveSteps /\ Signal(sem)
  \/ \E rf \in BOOLEAN : Tick(rf)

SpecLive == Init /\ [][NextLive]_vars /\ WF_vars(\E rf \in BOOLEAN : Tick(rf))

(* timedwait under a clock that ticks for ever; no semaphore is signalled, *)
(* reset or deleted.                                                       *)
NextTimed ==
  \/ \E pid \in Pids, newprio \in Prios : steps < MaxLiveSteps /\ Chprio(pid, newprio)
  \/ \E count \in 0 .. MaxCount : steps < MaxLiveSteps /\ Semcreate(count)
  \/ \E sem \in Sems, timeout \in 1 .. MaxDelay :
       steps < MaxLiveSteps /\ Timedwait(sem, timeout)
  \/ \E rf \in BOOLEAN : Tick(rf)

SpecTimed == Init /\ [][NextTimed]_vars /\ WF_vars(\E rf \in BOOLEAN : Tick(rf))

(***************************************************************************)
(* Properties of the process primitives                                    *)
(***************************************************************************)
(* The semaphore a blocked caller of wait is queued on, by the history. *)
WaitsOn(p, s) == p \in Members(waitq[s])

(* C1: when the current process resumes a suspended process of higher      *)
(* priority, the resumed process is CURRENT and the caller is READY when   *)
(* the call has taken effect.                                              *)
C1_ResumePreempts ==
  [][\A pid \in Pids :
       (/\ Resume(pid)
        /\ proctab[pid].pstate = PR_SUSP
        /\ proctab[currpid].pstate = PR_CURR
        /\ proctab[pid].pprio > proctab[currpid].pprio)
       => (/\ currpid' = pid
           /\ proctab'[pid].pstate = PR_CURR
           /\ proctab'[currpid].pstate = PR_READY)]_vars

(* C2: a signal that finds processes blocked on the semaphore wakes the    *)
(* one that has waited longest, whatever the priorities.                   *)
C2_SignalWakesInFifoOrder ==
  [][\A sem \in Sems :
       (Signal(sem) /\ waitq[sem] # <<>>)
       => (/\ signal(K, sem).aux = Head(waitq[sem])
           /\ proctab'[Head(waitq[sem])].pstate \in {PR_READY, PR_CURR})]_vars

(* C3: wait(s) lowers the count of s by exactly one; the caller blocks     *)
(* (WAITING, last on the list of s, another process CURRENT) exactly when  *)
(* the count was at most zero before the call, and otherwise returns OK    *)
(* and is still CURRENT.                                                   *)
C3_WaitDecrementsAndBlocks ==
  [][\A sem \in Sems :
       Wait(sem)
       => LET k2 == wait(K, sem)
              q == semqueue(k2, sem)
          IN /\ semtab'[sem].count = semtab[sem].count - 1
             /\ semtab[sem].count <= 0
                  => (/\ proctab'[currpid].pstate = PR_WAIT
                      /\ sem_queues'[sem].tail = currpid
                      /\ proctab'[currpid].pwait = -1
                      /\ semqueue(K, sem) = waitq[sem]
                           => q = Append(waitq[sem], currpid)
                      /\ currpid' # currpid
                      /\ proctab'[currpid'].pstate = PR_CURR)
             /\ semtab[sem].count > 0
                  => (/\ k2.ret = OK
                      /\ currpid' = currpid
                      /\ proctab'[currpid].pstate = PR_CURR)]_vars

(* C3 witness: a process is blocked inside wait, last on the list of a     *)
(* semaphore whose count is negative, and another process is current.      *)
C3_Witness ==
  \E p \in Pids, s \in Sems :
    /\ pcall[p] = [op |-> "wait", arg |-> s]
    /\ proctab[p].pstate = PR_WAIT
    /\ sem_queues[s].tail = p
    /\ semtab[s].count < 0
    /\ currpid # p

(* C4: a process that was blocked in wait(s) when s was deleted gets       *)
(* SYSERR from its wait, whatever happens before it runs again.            *)
C4_DeletedWaiterGetsSyserr ==
  (woke.op = "wait" /\ woke.del) => woke.ret = SYSERR

(* C5: kill of a process WAITING on s takes it off the list of s and       *)
(* raises the count of s, and of no other semaphore, by one.               *)
C5_KillWaiterReleasesSlot ==
  [][\A pid \in Pids, s \in Sems :
       (Kill(pid) /\ proctab[pid].pstate = PR_WAIT /\ WaitsOn(pid, s))
       => LET k2 == kill(K, pid)
          IN /\ pid \notin Members(semqueue(k2, s))
             /\ semtab'[s].count = semtab[s].count + 1
             /\ \A t \in Sems \ {s} : semtab'[t].count = semtab[t].count]_vars

(* C6: kill of a waiter leaves the other waiters of the semaphore on its   *)
(* list, still WAITING and in their order.                                 *)
C6_KillKeepsOtherWaiters ==
  [][\A pid \in Pids, s \in Sems :
       (/\ Kill(pid)
        /\ proctab[pid].pstate = PR_WAIT
        /\ WaitsOn(pid, s)
        /\ semqueue(K, s) = waitq[s])
       => LET k2 == kill(K, pid)
          IN /\ Without(semqueue(k2, s), pid) = Without(waitq[s], pid)
             /\ \A q \in Members(waitq[s]) \ {pid} : proctab'[q].pstate = PR_WAIT]_vars

(* C7: kill leaves the entry of its target FREE, and a FREE entry stays    *)
(* FREE until create returns its pid.                                      *)
C7_FreeUntilCreate ==
  [][/\ \A pid \in Pids \ {0} : Kill(pid) => proctab'[pid].pstate = PR_FREE
     /\ \A p \in Pids :
          (proctab[p].pstate = PR_FREE /\ proctab'[p].pstate # PR_FREE)
          => \E priority \in Prios :
                Create(priority, INIT_STK) /\ create(K, priority, INIT_STK).ret = p]_vars

(* C8: kill of a sleeping process takes it off the sleep list and adds its *)
(* remaining delta to the process queued after it.                         *)
C8_KillSleeperUnlinks ==
  [][\A pid \in Pids :
       (Kill(pid) /\ proctab[pid].pstate = PR_SLEEP)
       => LET before == qpids(queuetab, sleepq)
              after == qpids(queuetab', sleepq')
          IN /\ after = Without(before, pid)
             /\ \A i \in 1 .. (Len(before) - 1) :
                  before[i] = pid
                  => proctab'[before[i + 1]].pargs
                       = proctab[before[i + 1]].pargs + proctab[pid].pargs]_vars

(* C9: a suspended process is not on the ready list, and it does not       *)
(* become CURRENT before it is resumed.                                    *)
C9_SuspendedNeverRuns ==
  [][\A p \in Pids :
       /\ proctab'[p].pstate = PR_SUSP
            => p \notin Members(pchain(proctab', readylist_head', NPROC))
       /\ (proctab[p].pstate = PR_SUSP /\ proctab'[p].pstate = PR_CURR)
            => Resume(p)]_vars

(* C10: a process that calls sleep(n) when the tick counter is t is made   *)
(* READY by the handler invocation that advances the counter to t + n: it  *)
(* is not woken before, and it does not sleep on after that invocation.    *)
C10_SleeperWokenOnTime ==
  [][\A p \in Pids :
       (/\ wakeat[p] # NONE
        /\ proctab[p].pstate = PR_SLEEP
        /\ \E rf \in BOOLEAN : Clkhandler(rf))
       => (proctab'[p].pstate \in {PR_READY, PR_CURR} <=> clkticks' = wakeat[p])]_vars

(***************************************************************************)
(* Properties of the clock and of the extended semaphore primitives        *)
(***************************************************************************)
(* C11: unsleep of a sleeping process takes it off the sleep list and      *)
(* leaves it SUSPENDED, not READY: only a later resume makes it runnable.  *)
C11_UnsleepSuspends ==
  [][\A pid \in Pids :
       (Unsleep(pid) /\ proctab[pid].pstate = PR_SLEEP)
       => (/\ pid \notin Members(qpids(queuetab', sleepq'))
           /\ proctab'[pid].pstate = PR_SUSP)]_vars

(* C14: while the clock is not deferred, the number of ticks the handler   *)
(* still lets pass before its preemption step calls resched is at most     *)
(* time_quantum, also after yield_quantum.  The handler reschedules on the *)
(* tick that takes preempt_count from 1 to 0; from 0 the unsigned counter  *)
(* wraps to its largest value and counts down from there.                  *)
C14_ReschedEveryQuantum ==
  clkdefer = 0
  => (IF preempt_count = 0 THEN UINT32_WRAP ELSE preempt_count) <= time_quantum

(* C20: undefer_clock after k >= 1 deferred ticks leaves the same sleep    *)
(* list, the same deltas on it and the same processes woken as k ticks     *)
(* that the handler takes without deferral; and a tick that arrives while  *)
(* the clock is deferred wakes no process.                                 *)
C20_UndeferReplaysTicks ==
  [][\A rf \in BOOLEAN :
       /\ (Undefer_clock(rf) /\ clkdefer > 1)
            => LET a == undefer_clock(K, rf)
                   b == clkhandler_times([K EXCEPT !.clkdefer = 0], rf, clkdefer - 1)
               IN /\ qpids(a.queuetab, a.sleepq) = qpids(b.queuetab, b.sleepq)
                  /\ \A p \in Members(qpids(a.queuetab, a.sleepq)) :
                       a.proctab[p].pargs = b.proctab[p].pargs
                  /\ \A p \in Pids :
                       proctab[p].pstate = PR_SLEEP
                       => (a.proctab[p].pstate = PR_SLEEP <=> b.proctab[p].pstate = PR_SLEEP)
       /\ (Clkhandler(rf) /\ clkdefer > 0)
            => \A p \in Pids :
                 proctab[p].pstate = PR_SLEEP => proctab'[p].pstate = PR_SLEEP]_vars

(* C20 witness: undefer_clock has replayed at least one deferred tick over *)
(* a sleep list whose first process is still asleep with a delta left.     *)
C20_Witness ==
  /\ woke.op = "undefer_clock"
  /\ woke.ret >= 1
  /\ clkdefer = 0
  /\ \E p \in Pids :
       /\ proctab[p].pstate = PR_SLEEP
       /\ firstid(K, sleepq) = p
       /\ proctab[p].pargs >= 1

(* C18: trywait(s) changes the state of no process and never makes the     *)
(* count negative: it lowers the count by one and returns OK exactly when  *)
(* the count was positive before the call, and otherwise returns its       *)
(* would-block error (SYSERR) and leaves the count as it was.              *)
C18_TrywaitNeverBlocks ==
  [][\A sem \in Sems :
       Trywait(sem)
       => /\ proctab' = proctab
          /\ currpid' = currpid
          /\ semtab[sem].count >= 0 => semtab'[sem].count >= 0
          /\ trywait(K, sem).ret = OK <=> semtab[sem].count > 0
          /\ semtab[sem].count > 0
               => semtab'[sem].count = semtab[sem].count - 1
          /\ semtab[sem].count <= 0
               => (trywait(K, sem).ret = SYSERR /\ semtab' = semtab)]_vars

(* C18 witness: trywait has just taken the last unit of a semaphore. *)
C18_Witness ==
  /\ woke.op = "trywait"
  /\ woke.ret = OK
  /\ semtab[woke.sem].count = 0
  /\ proctab[woke.pid].pstate = PR_CURR

(* C17: every process blocked in wait(s) when semreset(s, n) is called is  *)
(* woken and gets SYSERR from its wait; s stays allocated with count n and *)
(* an empty list.                                                          *)
C17_ResetWaiterGetsSyserr ==
  [][/\ \A sem \in Sems, count \in 0 .. MaxCount :
          Semreset(sem, count)
          => /\ \A p \in Members(waitq[sem]) :
                  proctab'[p].pstate \in {PR_READY, PR_CURR}
             /\ semtab'[sem].queue # -1
             /\ semtab'[sem].count = count
             /\ sem_queues'[sem].head = -1
     /\ (woke'.op = "wait" /\ woke'.rst) => woke'.ret = SYSERR]_vars

(* C16: for n > 0, signaln(s, n) leaves the count of s, the list of s and  *)
(* the state of every process as n calls of signal(s) in a row leave them. *)
C16_SignalnIsRepeatedSignal ==
  [][\A sem \in Sems, n \in 1 .. MaxSignals :
       Signaln(sem, n)
       => LET a == signaln(K, sem, n)
              b == signal_times(K, sem, n)
          IN /\ a.semtab[sem].count = b.semtab[sem].count
             /\ semqueue(a, sem) = semqueue(b, sem)
             /\ \A p \in Pids : a.proctab[p].pstate = b.proctab[p].pstate]_vars

(* C12: a process that a wake-up (signal, resume, ...) has made READY      *)
(* becomes CURRENT at some time, unless it stops being READY or a process  *)
(* of strictly higher priority is runnable, while the clock keeps ticking. *)
C12_ReadyEventuallyRuns ==
  \A p \in Pids \ {0} :
    (p \in readied)
    ~> (\/ proctab[p].pstate # PR_READY
        \/ \E q \in Pids \ {p} :
             /\ proctab[q].pstate \in {PR_READY, PR_CURR}
             /\ proctab[q].pprio > proctab[p].pprio)

(* C13: of two processes of equal priority, one CURRENT and the other      *)
(* READY on the ready list, the CURRENT one does not stay CURRENT for ever *)
(* while the clock keeps ticking.                                          *)
C13_EqualPriorityAlternate ==
  \A p, q \in Pids \ {0} :
    (/\ p # q
     /\ currpid = p
     /\ proctab[p].pstate = PR_CURR
     /\ proctab[q].pstate = PR_READY
     /\ q \in Members(pchain(proctab, readylist_head, NPROC))
     /\ proctab[p].pprio = proctab[q].pprio)
    ~> (currpid # p \/ proctab[q].pstate # PR_READY)

(* C15: a process blocked in timedwait on a semaphore that is never        *)
(* signalled or deleted stops waiting at some time, the clock ticking on.  *)
C15_TimedwaitTimesOut ==
  \A p \in Pids :
    (pcall[p].op = "timedwait" /\ proctab[p].pstate = PR_WAIT)
    ~> (pcall[p].op # "timedwait")

(* C19: a send to a process whose slot holds an unread message returns     *)
(* SYSERR and changes nothing; a stored message stays as it is for as long *)
(* as the slot is full; and a receive that returns, at once or after it    *)
(* blocked, returns the message that was in the slot and empties the slot: *)
(* the first message sent, never one that was refused.                     *)
C19_SendToFullSlotFails ==
  [][/\ \A pid \in Pids :
          (woke'.op = "send" /\ woke'.sem = pid /\ proctab[pid].phasmsg)
          => (/\ woke'.ret = SYSERR
              /\ proctab' = proctab
              /\ currpid' = currpid)
     /\ \A p \in Pids :
          (proctab[p].phasmsg /\ proctab'[p].phasmsg)
          => proctab'[p].pmsg = proctab[p].pmsg
     /\ \A p \in Pids :
          (woke'.op = "receive" /\ woke'.pid = p)
          => (/\ proctab[p].phasmsg
              /\ woke'.ret = proctab[p].pmsg
              /\ ~proctab'[p].phasmsg)]_vars

(* C19 witness: a send has just been refused because the slot of its       *)
(* target still holds the message of an earlier send.                      *)
C19_Witness ==
  /\ woke.op = "send"
  /\ woke.ret = SYSERR
  /\ woke.sem \in Pids
  /\ proctab[woke.sem].phasmsg
  /\ proctab[woke.sem].pmsg \in 1 .. MaxMsg
  /\ pcall[woke.sem].op = "receive"

(* C21: a call of suspend, resume, unsleep, chprio, send, semcreate,       *)
(* semdelete, semreset, signal, signaln or trywait that returns SYSERR     *)
(* leaves the process table, the semaphore table, the ready list, the wait *)
(* lists, the sleep queue and the pool of queue entries as they were.      *)
C21_SyserrChangesNothing ==
  [][(woke'.op \in SyserrOps /\ woke'.ret = SYSERR)
     => /\ proctab' = proctab
        /\ currpid' = currpid
        /\ semtab' = semtab
        /\ sem_queues' = sem_queues
        /\ semfree' = semfree
        /\ readylist_head' = readylist_head
        /\ readylist_tail' = readylist_tail
        /\ pid_in_use' = pid_in_use
        /\ queuetab' = queuetab
        /\ qfree' = qfree
        /\ sleepq' = sleepq
        /\ slnempty' = slnempty]_vars

(* C21 witness: semreset has just returned SYSERR for a negative count on  *)
(* an allocated semaphore that has a waiter.                               *)
C21_Witness ==
  /\ woke.op = "semreset"
  /\ woke.ret = SYSERR
  /\ woke.sem \in Sems
  /\ semtab[woke.sem].queue # -1
  /\ waitq[woke.sem] # <<>>

(* C22: disable/restore pairs nest.  While a critical section is open,     *)
(* interrupts are masked, whatever nested pairs have run; and the restore  *)
(* that closes the outermost section leaves the interrupt state that was   *)
(* there before its disable.                                               *)
C22_DisableRestoreNest ==
  [][/\ masks' # <<>> => interrupt_state' = 1
     /\ (masks # <<>> /\ masks' = <<>>) => interrupt_state' = outer]_vars

(* C22 witness: an outermost section opened with interrupts enabled has    *)
(* been closed, after nested pairs that filled the stack of saved states.  *)
C22_Witness ==
  /\ masks = <<>>
  /\ outer = 0
  /\ interrupt_state = 0
  /\ int_stack_ptr = 0
  /\ int_state_stack[0] = 0
  /\ int_state_stack[INT_STACK_SIZE - 1] = 1
  /\ steps > 0

(* The tables and lists of kernel state k are those of the current state. *)
SameTables(k) ==
  /\ k.proctab = proctab
  /\ k.currpid = currpid
  /\ k.semtab = semtab
  /\ k.sem_queues = sem_queues
  /\ k.semfree = semfree
  /\ k.readylist_head = readylist_head
  /\ k.readylist_tail = readylist_tail
  /\ k.pid_in_use = pid_in_use
  /\ k.queuetab = queuetab
  /\ k.qfree = qfree
  /\ k.sleepq = sleepq
  /\ k.slnempty = slnempty

(* C23: the null process is READY or CURRENT in every reachable state, and *)
(* in every reachable state kill(0) returns having changed nothing and     *)
(* suspend(0) returns SYSERR having changed nothing.                       *)
C23_NullProcessReadyOrCurrent ==
  /\ proctab[0].pstate \in {PR_READY, PR_CURR}
  /\ SameTables(kill(K, 0))
  /\ suspend(K, 0).ret = SYSERR
  /\ SameTables(suspend(K, 0))

(* C23 witness: the null process has been preempted and is READY on the    *)
(* ready list while another process, which could call kill(0) or           *)
(* suspend(0), is CURRENT.                                                 *)
C23_Witness ==
  /\ proctab[0].pstate = PR_READY
  /\ currpid # 0
  /\ proctab[currpid].pstate = PR_CURR
  /\ 0 \in {readylist(K)[n] : n \in 1 .. Len(readylist(K))}
  /\ steps > 1

(* The pids that allocate_pid can hand out in kernel state k. *)
Allocatable(k) ==
  {p \in Pids \ {0} : ~k.pid_in_use[p] /\ k.proctab[p].pstate = PR_FREE}

(* kill of the pid that the create ending in kernel state c returned. *)
KillCreated(c) == kill(c, c.ret)

(* C24: in every reachable state, a create that succeeds followed by kill  *)
(* of the pid it returned leaves as many allocatable pids and as much free *)
(* stack pool as there were before the create; and a create that fails in  *)
(* the stack allocation returns SYSERR with the pid released.              *)
C24_CreateKillRestoresPools ==
  \A priority \in Prios, ssize \in StackSizes :
    /\ create(K, priority, ssize).ret # SYSERR
        => /\ Cardinality(Allocatable(KillCreated(create(K, priority, ssize))))
                = Cardinality(Allocatable(K))
           /\ KillCreated(create(K, priority, ssize)).stkpool.mfree = stkpool.mfree
    /\ (allocate_pid(K).aux # SYSERR /\ getstk(K, ssize).aux = SYSERR)
        => /\ create(K, priority, ssize).ret = SYSERR
           /\ create(K, priority, ssize).pid_in_use = pid_in_use

(* The semaphores allocated in kernel state k. *)
Allocated(k) == {s \in Sems : k.semtab[s].queue # -1}

(* The number of semcreate calls in a row that succeed from kernel state  *)
(* k, counted up to n.                                                     *)
RECURSIVE Creatable(_, _)
Creatable(k, n) ==
  IF n = 0 \/ semcreate(k, 0).ret = SYSERR \/ semcreate(k, 0).hung THEN 0
  ELSE 1 + Creatable(semcreate(k, 0), n - 1)

(* C25: after any sequence of semcreate and semdelete calls, as many       *)
(* semaphores can still be created as NSEM less the number allocated; a    *)
(* semcreate that succeeds returns an id that was not allocated; and       *)
(* semcreate followed by semdelete of the id it returned leaves as many    *)
(* semaphores to create as before.                                         *)
C25_SemaphorePoolCapacity ==
  /\ Creatable(K, NSEM + 1) = NSEM - Cardinality(Allocated(K))
  /\ \A count \in 0 .. MaxCount :
       semcreate(K, count).ret # SYSERR
         => /\ semcreate(K, count).ret \in Sems \ Allocated(K)
            /\ Creatable(semdelete(semcreate(K, count), semcreate(K, count).ret),
                         NSEM + 1)
                 = Creatable(K, NSEM + 1)

(* C25 witness: both semaphores were created and the first was deleted, so *)
(* the free list starts at a slot that semdelete put back, one semaphore   *)
(* is allocated and one can be created.                                    *)
C25_Witness ==
  /\ Allocated(K) = {NSEM - 1}
  /\ semfree = 0
  /\ semtab[0].count = -1
  /\ Creatable(K, NSEM + 1) = 1
  /\ steps >= 3

(* The entries of the pool that are free in kernel state k. *)
FreeEntries(k) == {e \in Qents : k.queuetab[e].state = QE_FREE}

(* A call of queue.c that ended in kernel state r failed and changed       *)
(* neither a queue nor a PCB.                                              *)
FailedUnchanged(r) == r.ret = SYSERR /\ ~r.hung /\ SameTables(r)

(* C26: in every reachable state with no free entry in the pool, enqueue,  *)
(* insert and insertd return SYSERR and leave every queue and every PCB as *)
(* it was, whatever their arguments; and with fewer than two free entries  *)
(* newqueue returns SYSERR and changes nothing.                            *)
C26_EmptyPoolChangesNothing ==
  /\ FreeEntries(K) = {}
       => \A pid \in Pids, q \in -1 .. NQENT :
            /\ FailedUnchanged(enqueue(K, pid, q))
            /\ \A key \in 1 .. MaxDelay :
                 /\ FailedUnchanged(insert(K, pid, q, key))
                 /\ FailedUnchanged(insertd(K, pid, q, key))
  /\ Cardinality(FreeEntries(K)) < 2 => FailedUnchanged(newqueue(K))

(* C26 witness: the pool is empty while a process with a delta larger than *)
(* the smallest key stands on the sleep queue, where insertd would adjust  *)
(* it if it went on.                                                       *)
C26_Witness ==
  /\ FreeEntries(K) = {}
  /\ qfree = EMPTY
  /\ queuetab[queuetab[sleepq].next].state = QE_PROC
  /\ proctab[queuetab[queuetab[sleepq].next].key].pargs > 1

(* The PCBs in state CURRENT. *)
Currents == {p \in Pids : proctab[p].pstate = PR_CURR}

(* C27: in every reachable state exactly one PCB has state CURRENT. *)
C27_ExactlyOneCurrent == Cardinality(Currents) = 1

(* C27 witness: a process has blocked or been killed and the processor was *)
(* handed on, and the null process has been preempted: a process other     *)
(* than the null process is the one CURRENT and the null process is READY. *)
C27_Witness ==
  /\ Currents = {currpid}
  /\ currpid # 0
  /\ proctab[0].pstate = PR_READY
  /\ \E p \in Pids : proctab[p].pstate \in {PR_WAIT, PR_SLEEP, PR_RECV, PR_FREE}

(* The number of times pid p stands on the ready list. *)
ReadyCount(p) == Cardinality({n \in 1 .. Len(readylist(K)) : readylist(K)[n] = p})

(* C28: in every reachable state a PCB has state READY if and only if it   *)
(* stands exactly once on the ready list.                                  *)
C28_ReadyIffOnReadyList ==
  \A p \in Pids : proctab[p].pstate = PR_READY <=> ReadyCount(p) = 1

(* C29: in every reachable state, for every allocated semaphore, as many   *)
(* processes are linked on its wait list as its count is below zero.       *)
C29_WaitersMatchCount ==
  \A s \in Allocated(K) :
    Len(semqueue(K, s)) = IF semtab[s].count < 0 THEN -semtab[s].count ELSE 0

(* The number of times pid p is linked on the wait list of semaphore s. *)
WaitCount(p, s) ==
  Cardinality({n \in 1 .. Len(semqueue(K, s)) : semqueue(K, s)[n] = p})

(* C30: in every reachable state, every PCB in state WAITING is linked     *)
(* exactly once on the wait list of exactly one semaphore, and its pwait   *)
(* field holds the id of that semaphore.                                   *)
C30_WaitingOnOneList ==
  \A p \in Pids :
    proctab[p].pstate = PR_WAIT
      => \E s \in Sems :
           /\ WaitCount(p, s) = 1
           /\ \A t \in Sems \ {s} : WaitCount(p, t) = 0
           /\ proctab[p].pwait = s

(* The number of times pid p occurs in the sequence q. *)
Occurrences(q, p) == Cardinality({n \in 1 .. Len(q) : q[n] = p})

(* The number of times pid p is linked on the kernel lists: the ready      *)
(* list, the wait list of each semaphore and the sleep delta list.         *)
RECURSIVE WaitLinks(_, _)
WaitLinks(p, n) ==
  IF n = 0 THEN 0 ELSE WaitCount(p, n - 1) + WaitLinks(p, n - 1)

ListLinks(p) ==
  ReadyCount(p) + WaitLinks(p, NSEM) + Occurrences(qpids(queuetab, sleepq), p)

(* C31: in every reachable state no PCB is linked on two kernel lists at   *)
(* once, and none is linked twice on one list.                             *)
C31_OnAtMostOneList == \A p \in Pids : ListLinks(p) <= 1

(* C32: in every reachable state the priorities along the ready list, from *)
(* head to tail, never increase.                                           *)
C32_ReadyListByPriority ==
  \A n \in 1 .. (Len(readylist(K)) - 1) :
    proctab[readylist(K)[n]].pprio >= proctab[readylist(K)[n + 1]].pprio

(* No READY process of kernel state k has a priority above that of the     *)
(* current process.                                                        *)
NoReadyAboveCurrent(k) ==
  \A p \in Pids :
    k.proctab[p].pstate = PR_READY
      => k.proctab[p].pprio <= k.proctab[k.currpid].pprio

(* C33: when resched, called in any reachable state, returns, no READY     *)
(* process has a priority strictly greater than that of the CURRENT        *)
(* process; so it is in every state that a primitive ending in resched     *)
(* leaves.                                                                 *)
C33_ReschedRunsHighest == ~hung => NoReadyAboveCurrent(resched_switch(K))

(* C34: in every reachable state the count of every allocated semaphore    *)
(* that has not been reset is its initial count plus the signals made on   *)
(* it (one per signal, n per signaln, one per kill of a waiter) less the   *)
(* waits that decrement it (wait, timedwait, trywait that succeeds).       *)
C34_CountIsSignalsLessWaits ==
  ~hung => \A s \in Sems : semexp[s] # NONE => semtab[s].count = semexp[s]

(* The sum of the deltas of the first n entries of the delta list q in     *)
(* kernel state k, and the offset from the head of the entry of pid p: the *)
(* sum of the deltas up to and including its own.                          *)
RECURSIVE CumDelta(_, _, _)
CumDelta(k, q, n) ==
  IF n = 0 THEN 0
  ELSE k.proctab[qpids(k.queuetab, q)[n]].pargs + CumDelta(k, q, n - 1)

Offset(k, q, p) ==
  CumDelta(k, q, CHOOSE n \in 1 .. Len(qpids(k.queuetab, q)) :
                   qpids(k.queuetab, q)[n] = p)

(* The entries of q are entries of different processes. *)
Distinct(k, q) ==
  \A p \in Members(qpids(k.queuetab, q)) : Occurrences(qpids(k.queuetab, q), p) = 1

(* C35: in every reachable state, insertd(pid, q, key) of a process not on *)
(* the delta list followed by getitem(pid, q) leaves every entry of the    *)
(* list at the offset from the head that it had before the insertion.      *)
C35_GetitemRestoresDeltas ==
  \A pid \in Pids, key \in 0 .. MaxDelay :
    (/\ ~hung
     /\ Distinct(K, sleepq)
     /\ pid \notin Members(qpids(queuetab, sleepq))
     /\ insertd(K, pid, sleepq, key).ret = OK)
      => \A p \in Members(qpids(queuetab, sleepq)) :
           Offset(getitem(insertd(K, pid, sleepq, key), pid, sleepq), sleepq, p)
             = Offset(K, sleepq, p)

(* C36: in every reachable state, insertd(pid, q, key) with key >= 0 of a  *)
(* process not yet on the delta list q puts pid at offset key from the     *)
(* head, leaves no negative delta on the list, and leaves every entry that *)
(* was on the list at the offset it had.                                   *)
C36_InsertdKeepsOffsets ==
  \A q \in Qents, pid \in Pids, key \in 0 .. (MaxDelay + 1) :
    (/\ ~hung
     /\ queuetab[q].state = QE_HEAD
     /\ Distinct(K, q)
     /\ pid \notin Members(qpids(queuetab, q))
     /\ insertd(K, pid, q, key).ret = OK)
      => /\ Occurrences(qpids(insertd(K, pid, q, key).queuetab, q), pid) = 1
         /\ Offset(insertd(K, pid, q, key), q, pid) = key
         /\ \A p \in Members(qpids(insertd(K, pid, q, key).queuetab, q)) :
              insertd(K, pid, q, key).proctab[p].pargs >= 0
         /\ \A p \in Members(qpids(queuetab, q)) :
              Offset(insertd(K, pid, q, key), q, p) = Offset(K, q, p)

(* C36 witness: two insertd calls have put pid 1 and pid 2 on the sleep    *)
(* list at offsets 1 and 2, so that a third entry with key 1 or more goes  *)
(* behind an entry and, with key 1, in front of an entry whose delta it    *)
(* divides.                                                                *)
C36_Witness ==
  /\ qpids(queuetab, sleepq) = <<1, 2>>
  /\ proctab[1].pargs = 1
  /\ proctab[2].pargs = 1
  /\ insertd(K, 0, sleepq, 1).ret = OK

(* insert(p1, q, k1) followed by insert(p2, q, k2). *)
InsertTwo(k, q, p1, k1, p2, k2) == insert(insert(k, p1, q, k1), p2, q, k2)

(* C37: in every reachable state, two insert calls on an empty queue leave *)
(* the two entries in non-increasing order of the keys they were inserted  *)
(* with, and in the order of the calls when the keys are equal.            *)
C37_InsertOrdersByKey ==
  \A q \in Qents, p1 \in Pids, p2 \in Pids, k1 \in 1 .. MaxDelay, k2 \in 1 .. MaxDelay :
    (/\ ~hung
     /\ queuetab[q].state = QE_HEAD
     /\ qpids(queuetab, q) = <<>>
     /\ p1 # p2
     /\ insert(K, p1, q, k1).ret = OK
     /\ InsertTwo(K, q, p1, k1, p2, k2).ret = OK)
      => qpids(InsertTwo(K, q, p1, k1, p2, k2).queuetab, q)
           = IF k2 > k1 THEN <<p2, p1>> ELSE <<p1, p2>>

(* The ticks that the clock handler has deferred and undefer_clock has not *)
(* replayed yet.                                                           *)
DeferredTicks == IF clkdefer > 0 THEN clkdefer - 1 ELSE 0

(* C38 as stated: in every reachable state the tick counter is the number  *)
(* of clock handler invocations less the ticks deferred at the time.       *)
C38_TicksLessDeferred == clkticks = clkcalls - DeferredTicks

(* C38 amended: the tick counter never decreases, and in every step it     *)
(* advances by exactly the number of clock handler invocations of the      *)
(* step, whether the tick is deferred or handled.                          *)
C38_TicksCountInvocations ==
  [][/\ clkticks' >= clkticks
     /\ clkticks' - clkticks = clkcalls' - clkcalls]_vars

(* C38 witness: two ticks have been deferred and counted, and are still to *)
(* be replayed.                                                            *)
C38_Witness ==
  /\ clkdefer = 3
  /\ clkcalls >= 2
  /\ clkticks = clkcalls

(* C39: whenever a kernel primitive has returned, the process table entry  *)
(* of currpid is in state PR_CURR and no other entry is.                   *)
C39_CurrpidIsTheCurrent ==
  ~hung => /\ proctab[currpid].pstate = PR_CURR
           /\ \A p \in Pids : proctab[p].pstate = PR_CURR => p = currpid

(* C39 witness: a process has been suspended, the processor has passed to  *)
(* a process other than the null process, and a preempted process stands   *)
(* on the ready list.                                                      *)
C39_Witness ==
  /\ ~hung
  /\ currpid # 0
  /\ proctab[currpid].pstate = PR_CURR
  /\ \E p \in Pids : proctab[p].pstate = PR_SUSP
  /\ readylist(K) # <<>>

(* The entries of the free list, from qfree along the next links. *)
RECURSIVE FreeChain(_, _, _)
FreeChain(k, e, fuel) ==
  IF e \notin Qents \/ fuel = 0 THEN <<>>
  ELSE <<e>> \o FreeChain(k, k.queuetab[e].next, fuel - 1)

(* The entries of a queue, from entry e along the next links up to and     *)
(* including the first tail sentinel.                                      *)
RECURSIVE QueueChain(_, _, _)
QueueChain(k, e, fuel) ==
  IF e \notin Qents \/ fuel = 0 THEN <<>>
  ELSE IF k.queuetab[e].state = QE_TAIL THEN <<e>>
  ELSE <<e>> \o QueueChain(k, k.queuetab[e].next, fuel - 1)

Heads(k) == {e \in Qents : k.queuetab[e].state = QE_HEAD}

(* The number of queues of heads h .. NQENT - 1 that entry e is linked in, *)
(* counted with multiplicity.                                              *)
RECURSIVE QueueLinks(_, _, _)
QueueLinks(k, e, h) ==
  IF h >= NQENT THEN 0
  ELSE (IF h \in Heads(k) THEN Occurrences(QueueChain(k, h, NQENT + 1), e) ELSE 0)
       + QueueLinks(k, e, h + 1)

(* The links of the queue of head h agree in both directions, from the     *)
(* head sentinel over process entries to the tail sentinel.                *)
Consistent(k, h) ==
  LET c == QueueChain(k, h, NQENT + 1) IN
    /\ Len(c) >= 2
    /\ k.queuetab[c[Len(c)]].state = QE_TAIL
    /\ k.queuetab[h].prev = EMPTY
    /\ k.queuetab[c[Len(c)]].next = EMPTY
    /\ \A n \in 2 .. (Len(c) - 1) : k.queuetab[c[n]].state = QE_PROC
    /\ \A n \in 1 .. (Len(c) - 1) :
         /\ k.queuetab[c[n]].next = c[n + 1]
         /\ k.queuetab[c[n + 1]].prev = c[n]

(* C40: in every reachable state each queue entry is on the free list or   *)
(* linked in exactly one queue, as a sentinel or a process entry, and      *)
(* never both; and the next and prev links of every allocated queue agree  *)
(* from the head sentinel to the tail sentinel.                            *)
C40_EntriesInOnePlace ==
  /\ \A e \in Qents :
       /\ Occurrences(FreeChain(K, qfree, NQENT + 1), e) + QueueLinks(K, e, 0) = 1
       /\ queuetab[e].state = QE_FREE <=> Occurrences(FreeChain(K, qfree, NQENT + 1), e) = 1
  /\ \A h \in Heads(K) : Consistent(K, h)

(* C40 witness: a queue has been freed, its sentinels are the first two    *)
(* entries of the free list, and another queue holds a process entry.      *)
C40_Witness ==
  /\ qfree # EMPTY
  /\ queuetab[qfree].state = QE_FREE
  /\ queuetab[qfree].key = MININT
  /\ queuetab[qfree].next # EMPTY
  /\ queuetab[queuetab[qfree].next].state = QE_FREE
  /\ queuetab[queuetab[qfree].next].key = MAXINT
  /\ \E h \in Heads(K) : Len(QueueChain(K, h, NQENT + 1)) > 2
====
